---- MODULE Spec2Model ----
(***************************************************************************)
(* Floating-window workspace of the todo application (src/app/page.tsx):   *)
(* the placement engine, the focus engine, the stacking order and the      *)
(* layout persistence of the two blocks "todos" and "todoDetails".         *)
(* The project collection of src/features/todos/types/workspace.ts is      *)
(* modelled next to it.                                                    *)
(*                                                                         *)
(* Lengths are JavaScript numbers.  The only non-integer operation is the  *)
(* halving in the centring code, and a halved value is halved at most once *)
(* more (list x -> details width -> details x), so every length is a       *)
(* multiple of a quarter pixel.  The model counts in quarter pixels:       *)
(* Px(n) is n CSS pixels, Half is exact on every value it is applied to.   *)
(***************************************************************************)
EXTENDS Integers, FiniteSets, Sequences, TLC

VARIABLES
    blockLayouts,        \* useState<BlockLayouts>: block id -> layout
    focusedBlockId,      \* useState<BlockId | null>
    selectedTodoId,      \* useState<number | null>
    previousLayoutsRef,  \* useRef: block id -> remembered pre-focus layout
    localStorage,        \* the item stored under STORAGE_KEY
    canvasRect,          \* canvasRef.current.getBoundingClientRect()
    optimisticTodos,     \* displayed todo list: id -> "absent"|"active"|"done"
    focusTrip,           \* history: the focus entry in progress, if any
    focusSize,           \* history: block id -> size given by computeFocusLayout
    invalidatedTodos,    \* history: todos whose selection was invalidated
    lastOp,              \* history: the handler that ran last and its block
    placeCall,           \* last direct call of computeDetailBlockPlacement
    focusCall,           \* last direct call of computeFocusLayout
    loadCall,            \* last direct call of loadLayouts
    workspace,           \* WorkspaceState threaded through the collection calls
    wsCall,              \* history: the last collection or updater call
    todoSync,            \* confirmed todos, server rows and optimistic overlay
    toggleRun            \* one todo row and the toggleTodo calls running on it

vars == <<blockLayouts, focusedBlockId, selectedTodoId, previousLayoutsRef,
          localStorage, canvasRect, optimisticTodos, focusTrip, focusSize,
          invalidatedTodos, lastOp, placeCall, focusCall, loadCall, workspace, wsCall, todoSync, toggleRun>>

\* the variables of the Home component and of the placement calls
pageVars == <<blockLayouts, focusedBlockId, selectedTodoId, previousLayoutsRef,
              localStorage, canvasRect, optimisticTodos, focusTrip, focusSize,
              invalidatedTodos, lastOp, placeCall, focusCall, loadCall>>

Px(n) == n * 4
Half(n) == n \div 2

Min(a, b) == IF a < b THEN a ELSE b
Max(a, b) == IF a > b THEN a ELSE b

\* Math.min(Math.max(value, min), max)
clamp(value, min, max) == Min(Max(value, min), max)

BLOCK_IDS == {"todos", "todoDetails"}
NoBlock == "null"
NoTodo == 0

Rect(l) == [x |-> l.x, y |-> l.y, width |-> l.width, height |-> l.height]
WithZ(r, z) == [x |-> r.x, y |-> r.y, width |-> r.width, height |-> r.height, z |-> z]

----------------------------------------------------------------------------
(* Placement engine                                                        *)

\* variant: the 32px offset of the default layouts used as the gap
gapAsPadding == Px(32)
gap == Px(24)
padding == Px(32)
minWidth == Px(320)
minHeight == Px(420)
floorWidth == Px(240)
floorHeight == Px(320)
defaultPreferredWidth == Px(420)
defaultPreferredHeight == Px(520)

\* canvasRect?.width ?? window.innerWidth: a measured canvas is a record,
\* an unmeasured one is <<>> and the viewport size is used instead.
containerWidth(canvas, window) ==
    IF canvas = <<>> THEN window.innerWidth ELSE canvas.width
containerHeight(canvas, window) ==
    IF canvas = <<>> THEN window.innerHeight ELSE canvas.height

effectiveMinWidth(cw) == Max(Min(minWidth, cw - padding * 2), floorWidth)
effectiveMinHeight(ch) == Max(Min(minHeight, ch - padding * 2), floorHeight)

\* detailLayout is <<>> when the caller passes undefined
preferredWidth(detail, cw) ==
    clamp(IF detail = <<>> THEN defaultPreferredWidth ELSE detail.width,
          effectiveMinWidth(cw),
          Max(effectiveMinWidth(cw), cw - padding * 2))
\* variant: the gap is added to the previous height
preferredHeightWithGap(detail, ch) ==
    clamp(IF detail = <<>> THEN defaultPreferredHeight ELSE detail.height + gap,
          effectiveMinHeight(ch),
          Max(effectiveMinHeight(ch), ch - padding * 2))
preferredHeight(detail, ch) ==
    clamp(IF detail = <<>> THEN defaultPreferredHeight ELSE detail.height,
          effectiveMinHeight(ch),
          Max(effectiveMinHeight(ch), ch - padding * 2))

\* Each attempt returns a set: empty for null, else the one rectangle.
attemptRight(todos, detail, cw, ch) ==
    LET availableWidth == cw - padding - (todos.x + todos.width + gap)
        width == Min(preferredWidth(detail, cw), availableWidth)
        x == todos.x + todos.width + gap
        y == clamp(todos.y, padding, ch - preferredHeight(detail, ch) - padding)
        availableHeight == ch - padding - y
        height == Min(preferredHeight(detail, ch), availableHeight)
    IN  IF availableWidth < effectiveMinWidth(cw) THEN {}
        ELSE IF availableHeight < effectiveMinHeight(ch) THEN {}
        ELSE {[x |-> x, y |-> y, width |-> width, height |-> height]}

\* variant: the gap added on the wrong side of the list block's left edge
attemptLeftOverlapping(todos, detail, cw, ch) ==
    LET availableWidth == todos.x - padding - gap
        width == Min(preferredWidth(detail, cw), availableWidth)
        x == todos.x + gap - width
        y == clamp(todos.y, padding, ch - preferredHeight(detail, ch) - padding)
        availableHeight == ch - padding - y
        height == Min(preferredHeight(detail, ch), availableHeight)
    IN  IF availableWidth < effectiveMinWidth(cw) THEN {}
        ELSE IF availableHeight < effectiveMinHeight(ch) THEN {}
        ELSE {[x |-> x, y |-> y, width |-> width, height |-> height]}

attemptLeft(todos, detail, cw, ch) ==
    LET availableWidth == todos.x - padding - gap
        width == Min(preferredWidth(detail, cw), availableWidth)
        x == todos.x - gap - width
        y == clamp(todos.y, padding, ch - preferredHeight(detail, ch) - padding)
        availableHeight == ch - padding - y
        height == Min(preferredHeight(detail, ch), availableHeight)
    IN  IF availableWidth < effectiveMinWidth(cw) THEN {}
        ELSE IF availableHeight < effectiveMinHeight(ch) THEN {}
        ELSE {[x |-> x, y |-> y, width |-> width, height |-> height]}

attemptBelow(todos, detail, cw, ch) ==
    LET availableHeight == ch - padding - (todos.y + todos.height + gap)
        height == Min(preferredHeight(detail, ch), availableHeight)
        y == todos.y + todos.height + gap
        x == clamp(todos.x, padding, cw - preferredWidth(detail, cw) - padding)
        availableWidth == cw - padding - x
        width == Min(preferredWidth(detail, cw), availableWidth)
    IN  IF availableHeight < effectiveMinHeight(ch) THEN {}
        ELSE IF availableWidth < effectiveMinWidth(cw) THEN {}
        ELSE {[x |-> x, y |-> y, width |-> width, height |-> height]}

attemptAbove(todos, detail, cw, ch) ==
    LET availableHeight == todos.y - padding - gap
        height == Min(preferredHeight(detail, ch), availableHeight)
        y == todos.y - gap - height
        x == clamp(todos.x, padding, cw - preferredWidth(detail, cw) - padding)
        availableWidth == cw - padding - x
        width == Min(preferredWidth(detail, cw), availableWidth)
    IN  IF availableHeight < effectiveMinHeight(ch) THEN {}
        ELSE IF availableWidth < effectiveMinWidth(cw) THEN {}
        ELSE {[x |-> x, y |-> y, width |-> width, height |-> height]}

\* variant: centred without clamping the position to the padding
centredFallbackUnclamped(detail, cw, ch) ==
    LET w == preferredWidth(detail, cw)
        h == preferredHeight(detail, ch)
    IN  [x |-> Half(cw - w), y |-> Half(ch - h), width |-> w, height |-> h]

centredFallback(detail, cw, ch) ==
    LET fallbackWidthClamped ==
            clamp(preferredWidth(detail, cw), effectiveMinWidth(cw),
                  Max(effectiveMinWidth(cw), cw - padding * 2))
        fallbackHeightClamped ==
            clamp(preferredHeight(detail, ch), effectiveMinHeight(ch),
                  Max(effectiveMinHeight(ch), ch - padding * 2))
    IN  [x |-> clamp(Half(cw - fallbackWidthClamped), padding,
                     Max(padding, cw - fallbackWidthClamped - padding)),
         y |-> clamp(Half(ch - fallbackHeightClamped), padding,
                     Max(padding, ch - fallbackHeightClamped - padding)),
         width |-> fallbackWidthClamped,
         height |-> fallbackHeightClamped]

\* variant: the left side tried before the right side
attemptsLeftFirst(todos, detail, cw, ch) ==
    << attemptLeft(todos, detail, cw, ch),
       attemptRight(todos, detail, cw, ch),
       attemptBelow(todos, detail, cw, ch),
       attemptAbove(todos, detail, cw, ch) >>

\* const attempts = [attemptRight, attemptLeft, attemptBelow, attemptAbove]
attempts(todos, detail, cw, ch) ==
    << attemptRight(todos, detail, cw, ch),
       attemptLeft(todos, detail, cw, ch),
       attemptBelow(todos, detail, cw, ch),
       attemptAbove(todos, detail, cw, ch) >>

\* for (const attempt of attempts) { if (placement) return placement }
firstPlacement(tried, fallback) ==
    LET hits == {i \in DOMAIN tried : tried[i] # {}}
    IN  IF hits = {} THEN fallback
        ELSE LET first == CHOOSE i \in hits : \A j \in hits : i <= j
             IN  CHOOSE r \in tried[first] : TRUE

computeDetailBlockPlacement(todos, detail, canvas, window) ==
    LET cw == containerWidth(canvas, window)
        ch == containerHeight(canvas, window)
    IN  firstPlacement(attempts(todos, detail, cw, ch),
                       centredFallback(detail, cw, ch))

----------------------------------------------------------------------------
(* Focus engine                                                            *)

focusMinWidth == Px(520)
focusMinHeight == Px(580)
focusMaxWidthFloor == Px(420)
focusMaxHeightFloor == Px(480)

computeFocusLayout(layout, canvas, window) ==
    LET cw == containerWidth(canvas, window)
        ch == containerHeight(canvas, window)
        maxWidth == Max(focusMaxWidthFloor, cw - padding * 2)
        maxHeight == Max(focusMaxHeightFloor, ch - padding * 2)
        width == Min(Max(layout.width, focusMinWidth), maxWidth)
        height == Min(Max(layout.height, focusMinHeight), maxHeight)
        maxX == Max(padding, cw - width - padding)
        maxY == Max(padding, ch - height - padding)
    IN  [x |-> clamp(Half(cw - width), padding, maxX),
         y |-> clamp(Half(ch - height), padding, maxY),
         width |-> width,
         height |-> height,
         z |-> layout.z]

----------------------------------------------------------------------------
(* Stacking order                                                          *)

RECURSIVE MaxOver(_, _)
MaxOver(S, start) ==
    IF S = {} THEN start
    ELSE LET e == CHOOSE v \in S : TRUE IN MaxOver(S \ {e}, Max(start, e))

\* Object.values(layouts).reduce((h, c) => Math.max(h, c.z), 0)
highestZ(layouts) == MaxOver({layouts[id].z : id \in DOMAIN layouts}, 0)

getNextZ(layouts) == highestZ(layouts) + 1

----------------------------------------------------------------------------
(* Layout persistence.  A stored item is modelled as the JSON text's       *)
(* content: kind "absent" (no item), "unparsable" (JSON.parse throws) or   *)
(* "object"; an object maps block ids to objects mapping field names to    *)
(* JSON values [t |-> "number", v |-> n] or [t |-> "string", v |-> 0].     *)

FIELDS == {"x", "y", "width", "height", "z"}

JsonNumber(n) == [t |-> "number", v |-> n]
JsonString == [t |-> "string", v |-> 0]
AbsentItem == [kind |-> "absent", value |-> <<>>]
UnparsableItem == [kind |-> "unparsable", value |-> <<>>]
ObjectItem(obj) == [kind |-> "object", value |-> obj]

createDefaultLayouts ==
    [todos |-> [x |-> Px(48), y |-> Px(48), width |-> Px(520),
                height |-> Px(660), z |-> 1],
     todoDetails |-> [x |-> Px(48) + Px(520) + Px(32), y |-> Px(48),
                      width |-> Px(420), height |-> Px(520), z |-> 2]]

\* variant: a stored field is taken whatever its type
sanitizeFieldAnyType(layout, fallback, f) ==
    IF f \in DOMAIN layout THEN layout[f].v ELSE fallback[f]

\* typeof layout?.f === "number" ? layout.f : fallback.f
sanitizeField(layout, fallback, f) ==
    IF f \in DOMAIN layout /\ layout[f].t = "number"
    THEN layout[f].v ELSE fallback[f]

sanitizeLayout(layout, fallback) ==
    [x |-> sanitizeField(layout, fallback, "x"),
     y |-> sanitizeField(layout, fallback, "y"),
     width |-> sanitizeField(layout, fallback, "width"),
     height |-> sanitizeField(layout, fallback, "height"),
     z |-> sanitizeField(layout, fallback, "z")]

loadLayouts(item) ==
    LET defaults == createDefaultLayouts
    IN  IF item.kind # "object" THEN defaults
        ELSE [blockId \in BLOCK_IDS |->
                sanitizeLayout(IF blockId \in DOMAIN item.value
                               THEN item.value[blockId] ELSE <<>>,
                               defaults[blockId])]

\* JSON.stringify(blockLayouts)
stringifyLayouts(layouts) ==
    ObjectItem([blockId \in BLOCK_IDS |->
                  [f \in FIELDS |-> JsonNumber(layouts[blockId][f])]])

----------------------------------------------------------------------------
(* Bounds and input sets                                                   *)

MaxZ == 5
MaxTodos == 2

TodoIds == 1..MaxTodos

Size(w, h) == [width |-> Px(w), height |-> Px(h)]
Pos(x, y) == [x |-> Px(x), y |-> Px(y)]

\* bounding rectangles of the canvas the window can be resized to
CanvasSizes == {Size(1200, 800), Size(651, 800)}
Viewport == [innerWidth |-> Px(1280), innerHeight |-> Px(720)]

\* final positions of a drag, final sizes of a resize
DragPositions == {Pos(48, 48), Pos(400, 60)}
ResizeSizes ==
    [todos |-> {Size(360, 420)}, todoDetails |-> {Size(320, 360)}]

\* react-rnd minWidth / minHeight of the two blocks
rndMinSize == [todos |-> Size(360, 420), todoDetails |-> Size(320, 360)]

\* items found under STORAGE_KEY when the page is opened
StoredSwapped ==
    ObjectItem([todos |-> [x |-> JsonNumber(Px(400)), y |-> JsonNumber(Px(60)),
                           width |-> JsonNumber(Px(520)),
                           height |-> JsonNumber(Px(660)), z |-> JsonNumber(2)],
                todoDetails |-> [x |-> JsonNumber(Px(32)), y |-> JsonNumber(Px(60)),
                                 width |-> JsonNumber(Px(344)),
                                 height |-> JsonNumber(Px(520)),
                                 z |-> JsonNumber(1),
                                 title |-> JsonString]])
StoredPartial ==
    ObjectItem([todos |-> [x |-> JsonNumber(Px(400)), width |-> JsonString,
                           height |-> JsonNumber(Px(400)),
                           z |-> JsonNumber(2)]])
RawStored == {AbsentItem, UnparsableItem, StoredSwapped, StoredPartial}

----------------------------------------------------------------------------
(* Workspace collection (src/features/todos/types/workspace.ts).  A        *)
(* function that returns its argument returns the same object; the result  *)
(* of a call carries that as the field identical.                          *)

MaxProjects == 3
ProjectIds == 1..MaxProjects

\* type WorkspaceItem
WorkspaceItem(projectId, projectName, todosLayout, detailsLayout, selected) ==
    [projectId |-> projectId, projectName |-> projectName,
     todosLayout |-> todosLayout, detailsLayout |-> detailsLayout,
     selectedTodoId |-> selected]

\* type WorkspaceState, with no project
EmptyWorkspace == [items |-> <<>>, orderedProjectIds |-> <<>>]

Returned(state, identical) == [state |-> state, identical |-> identical]

\* state.orderedProjectIds.includes(projectId)
includes(ids, projectId) == \E i \in 1..Len(ids) : ids[i] = projectId

\* { ...state.items, [projectId]: item }
withItem(items, projectId, item) ==
    [p \in DOMAIN items \cup {projectId} |->
        IF p = projectId THEN item ELSE items[p]]

\* variant: the id is appended whether or not it is already listed
addWorkspaceItemAppend(state, item) ==
    Returned([items |-> withItem(state.items, item.projectId, item),
              orderedProjectIds |-> Append(state.orderedProjectIds, item.projectId)],
             FALSE)

\* variant: a project added again moves to the end of the order
addWorkspaceItemMoveToEnd(state, item) ==
    Returned([items |-> withItem(state.items, item.projectId, item),
              orderedProjectIds |->
                  Append(SelectSeq(state.orderedProjectIds,
                                   LAMBDA id : id # item.projectId),
                         item.projectId)],
             FALSE)

\* variant: the item is stored under its position in the order
addWorkspaceItemKeyedByPosition(state, item) ==
    LET hasProject == includes(state.orderedProjectIds, item.projectId)
        nextOrderedProjectIds ==
            IF hasProject THEN state.orderedProjectIds
            ELSE Append(state.orderedProjectIds, item.projectId)
    IN  Returned([items |-> withItem(state.items, Len(nextOrderedProjectIds),
                                     item),
                  orderedProjectIds |-> nextOrderedProjectIds], FALSE)

addWorkspaceItem(state, item) ==
    LET nextItems ==
            withItem(state.items, item.projectId,
                     WorkspaceItem(item.projectId, item.projectName,
                                   item.todosLayout, item.detailsLayout,
                                   item.selectedTodoId))
        hasProject == includes(state.orderedProjectIds, item.projectId)
        nextOrderedProjectIds ==
            IF hasProject THEN state.orderedProjectIds
            ELSE Append(state.orderedProjectIds, item.projectId)
    IN  Returned([items |-> nextItems,
                  orderedProjectIds |-> nextOrderedProjectIds], FALSE)

areLayoutsEqual(a, b) ==
    /\ a.x = b.x
    /\ a.y = b.y
    /\ a.width = b.width
    /\ a.height = b.height
    /\ a.z = b.z

\* updates.f !== undefined ? updates.f : current.f
\* (an update is a function on the field names it provides)
mergedField(current, updates, f) ==
    IF f \in DOMAIN updates THEN updates[f] ELSE current[f]

\* variant: no comparison with the current item, a new state every time
updateWorkspaceItemNoShortCircuit(state, projectId, updates) ==
    IF projectId \notin DOMAIN state.items THEN Returned(state, TRUE)
    ELSE LET current == state.items[projectId]
             nextItem ==
                 WorkspaceItem(current.projectId,
                               mergedField(current, updates, "projectName"),
                               mergedField(current, updates, "todosLayout"),
                               mergedField(current, updates, "detailsLayout"),
                               mergedField(current, updates, "selectedTodoId"))
         IN  Returned([items |-> withItem(state.items, projectId, nextItem),
                       orderedProjectIds |-> state.orderedProjectIds], FALSE)

\* variant: a null selectedTodoId is skipped like an absent one
updateWorkspaceItemNullSkipped(state, projectId, updates) ==
    IF projectId \notin DOMAIN state.items THEN Returned(state, TRUE)
    ELSE LET current == state.items[projectId]
             nextItem ==
                 WorkspaceItem(current.projectId,
                               mergedField(current, updates, "projectName"),
                               mergedField(current, updates, "todosLayout"),
                               mergedField(current, updates, "detailsLayout"),
                               IF /\ "selectedTodoId" \in DOMAIN updates
                                  /\ updates.selectedTodoId # NoTodo
                               THEN updates.selectedTodoId
                               ELSE current.selectedTodoId)
         IN  IF nextItem = current THEN Returned(state, TRUE)
             ELSE Returned([items |-> withItem(state.items, projectId, nextItem),
                            orderedProjectIds |-> state.orderedProjectIds], FALSE)

updateWorkspaceItem(state, projectId, updates) ==
    IF projectId \notin DOMAIN state.items THEN Returned(state, TRUE)
    ELSE LET current == state.items[projectId]
             nextItem ==
                 WorkspaceItem(current.projectId,
                               mergedField(current, updates, "projectName"),
                               mergedField(current, updates, "todosLayout"),
                               mergedField(current, updates, "detailsLayout"),
                               mergedField(current, updates, "selectedTodoId"))
             hasChanged ==
                 \/ current.projectName # nextItem.projectName
                 \/ current.selectedTodoId # nextItem.selectedTodoId
                 \/ ~areLayoutsEqual(current.todosLayout, nextItem.todosLayout)
                 \/ ~areLayoutsEqual(current.detailsLayout, nextItem.detailsLayout)
         IN  IF ~hasChanged THEN Returned(state, TRUE)
             ELSE Returned([items |-> withItem(state.items, projectId, nextItem),
                            orderedProjectIds |-> state.orderedProjectIds], FALSE)

\* const { [projectId]: removedItem, ...remaining } = state.items
withoutItem(items, projectId) ==
    [p \in DOMAIN items \ {projectId} |-> items[p]]

\* variant: no early return for an unknown id
removeWorkspaceItemUnguarded(state, projectId) ==
    Returned([items |-> withoutItem(state.items, projectId),
              orderedProjectIds |->
                  SelectSeq(state.orderedProjectIds,
                            LAMBDA id : id # projectId)], FALSE)

\* variant: the id stays in orderedProjectIds
removeWorkspaceItemKeepOrder(state, projectId) ==
    IF projectId \notin DOMAIN state.items THEN Returned(state, TRUE)
    ELSE Returned([items |-> withoutItem(state.items, projectId),
                   orderedProjectIds |-> state.orderedProjectIds], FALSE)

removeWorkspaceItem(state, projectId) ==
    IF projectId \notin DOMAIN state.items THEN Returned(state, TRUE)
    ELSE LET remaining == withoutItem(state.items, projectId)
             nextOrderedProjectIds ==
                 SelectSeq(state.orderedProjectIds, LAMBDA id : id # projectId)
         IN  Returned([items |-> remaining,
                       orderedProjectIds |-> nextOrderedProjectIds], FALSE)

----------------------------------------------------------------------------
(* Workspace state machine (Home component)                                *)

NoTrip == [phase |-> "none", id |-> NoBlock, from |-> NoBlock,
           pre |-> [x |-> 0, y |-> 0, width |-> 0, height |-> 0],
           mid |-> [x |-> 0, y |-> 0, width |-> 0, height |-> 0]]
NoCall == [called |-> FALSE]
NoOp == [op |-> "none", id |-> NoBlock, changed |-> FALSE]
NoWsCall == [op |-> "none", id |-> 0, arg |-> <<>>, before |-> EmptyWorkspace,
             after |-> EmptyWorkspace, identical |-> TRUE]

\* setError(null)
NoError == "null"

\* the todo state of a page whose todos are not loaded: useState([]), no
\* server rows, nothing in flight, no handler run; lists are functions
\* id -> todo (the order of the entries is not modelled)
NoSync == [todos |-> [i \in {} |-> FALSE],
           server |-> [rows |-> [i \in {} |-> FALSE], nextId |-> 1],
           overlay |-> <<>>, settled |-> 0, error |-> NoError,
           isAuthenticated |-> FALSE, last |-> [step |-> "none"]]

\* the record of a handler that targets a block: its name, the block and
\* whether it changed the layouts (other handlers leave NoOp)
Ran(op, id) == [op |-> op, id |-> id, changed |-> blockLayouts' # blockLayouts]

SizeOf(l) == [width |-> l.width, height |-> l.height]

\* selectedTodo: the selected todo if it is displayed and not done
selectedTodo(selected, todos) ==
    IF selected = NoTodo THEN NoTodo
    ELSE IF todos[selected] # "active" THEN NoTodo
    ELSE selected

isDetailVisible(selected, todos) == selectedTodo(selected, todos) # NoTodo

\* a block is on screen: the details block is rendered only when visible
isRendered(id) ==
    id = "todos" \/ isDetailVisible(selectedTodoId, optimisticTodos)

\* variant: the re-placed details block is also given a new z
replaceDetailsRaised(layouts, canvas) ==
    LET detail == layouts.todoDetails
        placement == computeDetailBlockPlacement(layouts.todos, detail,
                                                 canvas, Viewport)
    IN  IF Rect(detail) = placement THEN layouts
        ELSE [layouts EXCEPT !.todoDetails = WithZ(placement, getNextZ(layouts))]

\* the updater shared by the placement effect and handleResize
replaceDetails(layouts, canvas) ==
    LET detail == layouts.todoDetails
        placement == computeDetailBlockPlacement(layouts.todos, detail,
                                                 canvas, Viewport)
    IN  IF Rect(detail) = placement THEN layouts
        ELSE [layouts EXCEPT !.todoDetails = WithZ(placement, detail.z)]

\* selection invalidation effect: the value selectedTodoId is left with
\* variant: the effect is missing and the selection is kept
invalidateSelectionKeep(selected, visible) == selected

invalidateSelection(selected, visible) ==
    IF selected # NoTodo /\ ~visible THEN NoTodo ELSE selected

\* persist effect: the early return on focusedBlockId
\* variant: the effect saves whatever the focus target is
persistGuardOff(focused) == TRUE

\* variant: the test on the focus target inverted
persistGuardInverted(focused) == focused # NoBlock

persistGuard(focused) == focused = NoBlock

\* The effects that run after a handler has set the state to
\* (layouts, focused, selected, todos, canvas): selection invalidation,
\* placement, persistence; they are run until nothing changes.
Commit(layouts, focused, selected, todos, canvas) ==
    LET wasVisible == isDetailVisible(selectedTodoId, optimisticTodos)
        visible == isDetailVisible(selected, todos)
        depsChanged == \/ wasVisible # visible
                       \/ Rect(blockLayouts.todos) # Rect(layouts.todos)
        placed == IF visible /\ depsChanged
                  THEN replaceDetails(layouts, canvas) ELSE layouts
        persist == /\ persistGuard(focused)
                   /\ \/ layouts # blockLayouts
                      \/ focused # focusedBlockId
                      \/ placed # layouts
    IN  /\ blockLayouts' = placed
        /\ focusedBlockId' = focused
        /\ selectedTodoId' = invalidateSelection(selected, visible)
        /\ invalidatedTodos' =
              (IF selected # NoTodo /\ ~visible
               THEN invalidatedTodos \cup {selected}
               ELSE invalidatedTodos \ {selected})
        /\ optimisticTodos' = todos
        /\ canvasRect' = canvas
        /\ localStorage' =
              (IF persist THEN stringifyLayouts(placed) ELSE localStorage)

Init ==
    /\ \E item \in RawStored :
          /\ blockLayouts = loadLayouts(item)
          /\ localStorage = stringifyLayouts(loadLayouts(item))
    /\ focusedBlockId = NoBlock
    /\ selectedTodoId = NoTodo
    /\ previousLayoutsRef = <<>>
    /\ canvasRect = Size(1200, 800)
    /\ optimisticTodos = [t \in TodoIds |-> "absent"]
    /\ focusTrip = NoTrip
    /\ focusSize = [id \in BLOCK_IDS |-> {}]
    /\ invalidatedTodos = {}
    /\ lastOp = NoOp
    /\ placeCall = NoCall
    /\ focusCall = NoCall
    /\ loadCall = NoCall
    /\ todoSync = NoSync
    /\ toggleRun = <<>>
    /\ workspace = EmptyWorkspace
    /\ wsCall = NoWsCall

\* variant: the merge without the z bump
updateLayoutKeepZ(layouts, id, next) ==
    IF id \notin DOMAIN layouts THEN layouts
    ELSE [layouts EXCEPT ![id] =
            [f \in FIELDS |->
                IF f \in DOMAIN next THEN next[f] ELSE layouts[id][f]]]

\* setBlockLayouts updater of updateLayout
updateLayout(layouts, id, next) ==
    IF id \notin DOMAIN layouts THEN layouts
    ELSE [layouts EXCEPT ![id] =
            [f \in FIELDS |->
                IF f = "z" THEN getNextZ(layouts)
                ELSE IF f \in DOMAIN next THEN next[f] ELSE layouts[id][f]]]

\* variant: the block's own z incremented instead of the highest one
raiseBlockByOne(layouts, id) ==
    IF id \notin DOMAIN layouts THEN layouts
    ELSE IF layouts[id].z = highestZ(layouts) THEN layouts
    ELSE [layouts EXCEPT ![id].z = layouts[id].z + 1]

\* setBlockLayouts updater of raiseBlock
raiseBlock(layouts, id) ==
    IF id \notin DOMAIN layouts THEN layouts
    ELSE IF layouts[id].z = highestZ(layouts) THEN layouts
    ELSE [layouts EXCEPT ![id].z = highestZ(layouts) + 1]

\* react-rnd bounds="parent": the block stays inside the canvas
insideCanvas(x, y, width, height) ==
    /\ 0 <= x /\ x + width <= canvasRect.width
    /\ 0 <= y /\ y + height <= canvasRect.height

\* handleTodosDragStop / handleDetailsDragStop
DragStop(id) ==
    /\ isRendered(id)
    /\ getNextZ(blockLayouts) <= MaxZ
    /\ \E p \in DragPositions :
          /\ insideCanvas(p.x, p.y, blockLayouts[id].width, blockLayouts[id].height)
          /\ Commit(updateLayout(blockLayouts, id, p), focusedBlockId,
                    selectedTodoId, optimisticTodos, canvasRect)
    /\ focusTrip' = NoTrip
    /\ UNCHANGED <<previousLayoutsRef, focusSize, placeCall, focusCall, loadCall, workspace, wsCall, todoSync, toggleRun>>
    /\ lastOp' = Ran("drag", id)

\* handleTodosResizeStop / handleDetailsResizeStop, by a right or bottom
\* handle: the position reported by react-rnd is the current one
ResizeStop(id) ==
    /\ isRendered(id)
    /\ getNextZ(blockLayouts) <= MaxZ
    /\ \E s \in ResizeSizes[id] :
          /\ s.width >= rndMinSize[id].width /\ s.height >= rndMinSize[id].height
          /\ insideCanvas(blockLayouts[id].x, blockLayouts[id].y, s.width, s.height)
          /\ Commit(updateLayout(blockLayouts, id,
                                 [width |-> s.width, height |-> s.height,
                                  x |-> blockLayouts[id].x, y |-> blockLayouts[id].y]),
                    focusedBlockId, selectedTodoId, optimisticTodos, canvasRect)
          /\ focusSize' = [focusSize EXCEPT ![id] = @ \ {s}]
    /\ focusTrip' = NoTrip
    /\ UNCHANGED <<previousLayoutsRef, placeCall, focusCall, loadCall, workspace, wsCall, todoSync, toggleRun>>
    /\ lastOp' = Ran("resize", id)

\* onMouseDown of a block
RaiseBlock(id) ==
    /\ isRendered(id)
    /\ highestZ(blockLayouts) + 1 <= MaxZ
    /\ Commit(raiseBlock(blockLayouts, id), focusedBlockId, selectedTodoId,
              optimisticTodos, canvasRect)
    /\ focusTrip' = NoTrip
    /\ UNCHANGED <<previousLayoutsRef, focusSize, placeCall, focusCall, loadCall, workspace, wsCall, todoSync, toggleRun>>
    /\ lastOp' = Ran("raise", id)

\* delete previousLayoutsRef.current[id]
forget(ref, id) == [b \in DOMAIN ref \ {id} |-> ref[b]]

\* previousLayoutsRef.current[id] = { ...layout }
remember(ref, id, layout) ==
    [b \in DOMAIN ref \cup {id} |-> IF b = id THEN layout ELSE ref[b]]

\* variant: the exit keeps the current (focus) layout and only bumps z
exitFocusLayoutsKeep(layouts, ref, id) ==
    [layouts EXCEPT ![id] = WithZ(layouts[id], getNextZ(layouts))]

\* variant: the remembered layout comes back with the z it was stored with
exitFocusLayoutsStoredZ(layouts, ref, id) ==
    LET restored == IF id \in DOMAIN ref THEN ref[id] ELSE layouts[id]
    IN  [layouts EXCEPT ![id] = restored]

\* toggleFocus, branch focusedBlockId === id: the layouts after the updater
exitFocusLayouts(layouts, ref, id) ==
    LET restored == IF id \in DOMAIN ref THEN ref[id] ELSE layouts[id]
    IN  [layouts EXCEPT ![id] = WithZ(restored, getNextZ(layouts))]

\* toggleFocus, other branch: the layouts after the updater
enterFocusLayouts(layouts, id, canvas) ==
    [layouts EXCEPT ![id] =
        WithZ(computeFocusLayout(layouts[id], canvas, Viewport),
              getNextZ(layouts))]

\* variant: any toggle while some block is focused just ends the focus
toggledFocusOff(focused, id) == IF focused = NoBlock THEN id ELSE NoBlock

\* the focus target toggleFocus(id) sets
toggledFocus(focused, id) == IF focused = id THEN NoBlock ELSE id

\* toggleFocus(id), from the Focus / Exit focus button of a block
ToggleFocus(id) ==
    /\ isRendered(id)
    /\ getNextZ(blockLayouts) <= MaxZ
    /\ IF focusedBlockId = id
       THEN /\ Commit(exitFocusLayouts(blockLayouts, previousLayoutsRef, id),
                      toggledFocus(focusedBlockId, id), selectedTodoId,
                      optimisticTodos, canvasRect)
            /\ previousLayoutsRef' = forget(previousLayoutsRef, id)
            /\ focusTrip' =
                  (IF focusTrip.phase = "entered" /\ focusTrip.id = id
                   THEN [focusTrip EXCEPT !.phase = "exited"] ELSE NoTrip)
            /\ focusSize' = focusSize
       ELSE /\ Commit(enterFocusLayouts(blockLayouts, id, canvasRect),
                      toggledFocus(focusedBlockId, id), selectedTodoId,
                      optimisticTodos, canvasRect)
            /\ previousLayoutsRef' =
                  remember(previousLayoutsRef, id, blockLayouts[id])
            /\ focusTrip' =
                  [phase |-> "entered", id |-> id, from |-> focusedBlockId,
                   pre |-> Rect(blockLayouts[id]),
                   mid |-> Rect(computeFocusLayout(blockLayouts[id],
                                                   canvasRect, Viewport))]
            /\ focusSize' =
                  (LET grown == SizeOf(computeFocusLayout(blockLayouts[id],
                                                          canvasRect, Viewport))
                   IN  IF grown = SizeOf(blockLayouts[id]) THEN focusSize
                       ELSE [focusSize EXCEPT ![id] = @ \cup {grown}])
    /\ UNCHANGED <<placeCall, focusCall, loadCall, workspace, wsCall, todoSync, toggleRun>>
    /\ lastOp' = Ran(IF focusedBlockId = id THEN "focusExit" ELSE "focusEnter", id)

\* setBlockLayouts updater of handleSelectTodo
selectLayouts(layouts, canvas) ==
    LET detail == layouts.todoDetails
        placement == computeDetailBlockPlacement(layouts.todos, detail,
                                                 canvas, Viewport)
    IN  [layouts EXCEPT !.todoDetails = WithZ(placement, getNextZ(layouts))]

\* variant: handleSelectTodo without the early return on todo.done
SelectTodoUnchecked(t) ==
    /\ optimisticTodos[t] # "absent"
    /\ getNextZ(blockLayouts) <= MaxZ
    /\ Commit(selectLayouts(blockLayouts, canvasRect), focusedBlockId,
              t, optimisticTodos, canvasRect)
    /\ focusTrip' = NoTrip
    /\ UNCHANGED <<previousLayoutsRef, focusSize, placeCall, focusCall, loadCall, workspace, wsCall, todoSync, toggleRun>>
    /\ lastOp' = Ran(IF optimisticTodos[t] = "done" THEN "selectIgnored" ELSE "select", "todoDetails")

\* handleSelectTodo(todo), for a todo shown in the list
SelectTodo(t) ==
    /\ optimisticTodos[t] # "absent"
    /\ IF optimisticTodos[t] = "done"
       THEN UNCHANGED <<blockLayouts, focusedBlockId, selectedTodoId,
                        optimisticTodos, canvasRect, localStorage,
                        invalidatedTodos>>
       ELSE /\ getNextZ(blockLayouts) <= MaxZ
            /\ Commit(selectLayouts(blockLayouts, canvasRect), focusedBlockId,
                      t, optimisticTodos, canvasRect)
    /\ focusTrip' = NoTrip
    /\ UNCHANGED <<previousLayoutsRef, focusSize, placeCall, focusCall, loadCall, workspace, wsCall, todoSync, toggleRun>>
    /\ lastOp' = Ran(IF optimisticTodos[t] = "done" THEN "selectIgnored" ELSE "select", "todoDetails")

\* setFocusedBlockId updater of handleCloseDetails
closedFocus(current) == IF current = "todoDetails" THEN NoBlock ELSE current

\* handleCloseDetails, from the close button of the details block
CloseDetails ==
    /\ isRendered("todoDetails")
    /\ Commit(blockLayouts, closedFocus(focusedBlockId), NoTodo,
              optimisticTodos, canvasRect)
    /\ focusTrip' = NoTrip
    /\ UNCHANGED <<previousLayoutsRef, focusSize, placeCall, focusCall, loadCall, workspace, wsCall, todoSync, toggleRun>>
    /\ lastOp' = NoOp

\* window "resize" event: the canvas gets a new bounding rectangle and
\* handleResize, registered while the details block is visible, re-places it
WindowResize ==
    /\ \E c \in CanvasSizes \ {canvasRect} :
          Commit(IF isDetailVisible(selectedTodoId, optimisticTodos)
                 THEN replaceDetails(blockLayouts, c) ELSE blockLayouts,
                 focusedBlockId, selectedTodoId, optimisticTodos, c)
    /\ focusTrip' = NoTrip
    /\ UNCHANGED <<previousLayoutsRef, focusSize, placeCall, focusCall, loadCall, workspace, wsCall, todoSync, toggleRun>>
    /\ lastOp' = NoOp

\* the useOptimistic reducer, one case per todo operation
reduceTodos(todos, type, t) ==
    CASE type = "create" -> [todos EXCEPT ![t] = "active"]
      [] type = "toggle" ->
            [todos EXCEPT ![t] = IF @ = "done" THEN "active" ELSE "done"]
      [] type = "delete" -> [todos EXCEPT ![t] = "absent"]
      [] type = "clearCompleted" ->
            [u \in DOMAIN todos |-> IF todos[u] = "done" THEN "absent" ELSE todos[u]]

\* handleSubmit: a new todo appears in the list
CreateTodo(t) ==
    /\ optimisticTodos[t] = "absent"
    /\ Commit(blockLayouts, focusedBlockId, selectedTodoId,
              reduceTodos(optimisticTodos, "create", t), canvasRect)
    /\ focusTrip' = NoTrip
    /\ UNCHANGED <<previousLayoutsRef, focusSize, placeCall, focusCall, loadCall, workspace, wsCall, todoSync, toggleRun>>
    /\ lastOp' = NoOp

\* handleToggleTodo(id), from the checkbox of a listed todo
ToggleTodo(t) ==
    /\ optimisticTodos[t] # "absent"
    /\ Commit(blockLayouts, focusedBlockId, selectedTodoId,
              reduceTodos(optimisticTodos, "toggle", t), canvasRect)
    /\ focusTrip' = NoTrip
    /\ UNCHANGED <<previousLayoutsRef, focusSize, placeCall, focusCall, loadCall, workspace, wsCall, todoSync, toggleRun>>
    /\ lastOp' = NoOp

\* handleRemoveTodo(id)
RemoveTodo(t) ==
    /\ optimisticTodos[t] # "absent"
    /\ Commit(blockLayouts, focusedBlockId, selectedTodoId,
              reduceTodos(optimisticTodos, "delete", t), canvasRect)
    /\ focusTrip' = NoTrip
    /\ UNCHANGED <<previousLayoutsRef, focusSize, placeCall, focusCall, loadCall, workspace, wsCall, todoSync, toggleRun>>
    /\ lastOp' = NoOp

\* handleClearCompleted
ClearCompleted ==
    /\ \E t \in TodoIds : optimisticTodos[t] = "done"
    /\ Commit(blockLayouts, focusedBlockId, selectedTodoId,
              reduceTodos(optimisticTodos, "clearCompleted", NoTodo), canvasRect)
    /\ focusTrip' = NoTrip
    /\ UNCHANGED <<previousLayoutsRef, focusSize, placeCall, focusCall, loadCall, workspace, wsCall, todoSync, toggleRun>>
    /\ lastOp' = NoOp

Next ==
    \/ \E id \in BLOCK_IDS : DragStop(id)
    \/ \E id \in BLOCK_IDS : ResizeStop(id)
    \/ \E id \in BLOCK_IDS : RaiseBlock(id)
    \/ \E id \in BLOCK_IDS : ToggleFocus(id)
    \/ \E t \in TodoIds : SelectTodo(t)
    \/ CloseDetails
    \/ WindowResize
    \/ \E t \in TodoIds : CreateTodo(t)
    \/ \E t \in TodoIds : ToggleTodo(t)
    \/ \E t \in TodoIds : RemoveTodo(t)
    \/ ClearCompleted

Spec == Init /\ [][Next]_vars

TypeOK ==
    /\ DOMAIN blockLayouts = BLOCK_IDS
    /\ focusedBlockId \in BLOCK_IDS \cup {NoBlock}
    /\ selectedTodoId \in TodoIds \cup {NoTodo}
    /\ DOMAIN previousLayoutsRef \subseteq BLOCK_IDS

----------------------------------------------------------------------------
(* Direct calls of computeDetailBlockPlacement on enumerated inputs        *)

PlaceListRects ==
    {[x |-> x, y |-> y, width |-> Px(w), height |-> Px(h)] :
        x \in {0, Px(48), Px(65) + 2, Px(400), Px(700)},
        y \in {0, Px(48), Px(500), Px(700)},
        w \in {360, 520}, h \in {420, 660}}

PlaceDetails ==
    {<<>>} \cup
    {[x |-> Px(600), y |-> Px(48), width |-> Px(s[1]), height |-> Px(s[2]), z |-> 2] :
        s \in {<<420, 520>>, <<320, 360>>, <<587, 736>>, <<900, 1000>>}}

PlaceCanvases ==
    {[width |-> Px(w), height |-> Px(h)] :
        w \in {0, 300, 650, 651, 1200, 1600}, h \in {0, 380, 800, 1400}}

PlaceViewports ==
    {[innerWidth |-> Px(1280), innerHeight |-> Px(720)],
     [innerWidth |-> Px(390), innerHeight |-> Px(844)]}

PlacementInit ==
    /\ blockLayouts = createDefaultLayouts
    /\ localStorage = stringifyLayouts(createDefaultLayouts)
    /\ focusedBlockId = NoBlock
    /\ selectedTodoId = NoTodo
    /\ previousLayoutsRef = <<>>
    /\ canvasRect = Size(1200, 800)
    /\ optimisticTodos = [t \in TodoIds |-> "absent"]
    /\ focusTrip = NoTrip
    /\ focusSize = [id \in BLOCK_IDS |-> {}]
    /\ invalidatedTodos = {}
    /\ lastOp = NoOp
    /\ placeCall = NoCall
    /\ focusCall = NoCall
    /\ loadCall = NoCall
    /\ todoSync = NoSync
    /\ toggleRun = <<>>
    /\ workspace = EmptyWorkspace
    /\ wsCall = NoWsCall

\* one call per behaviour: the function keeps no state between calls; the
\* result is spread over the details layout and given to a second call, as
\* handleResize does on the next resize event
PlaceCall(todos, detail, canvas, window) ==
    /\ ~placeCall.called
    /\ placeCall' =
          [called |-> TRUE, todos |-> todos, detail |-> detail,
           cw |-> containerWidth(canvas, window),
           ch |-> containerHeight(canvas, window),
           result |-> computeDetailBlockPlacement(todos, detail, canvas, window),
           again |-> computeDetailBlockPlacement(
                        todos,
                        WithZ(computeDetailBlockPlacement(todos, detail, canvas, window),
                              IF detail = <<>> THEN 2 ELSE detail.z),
                        canvas, window)]
    /\ UNCHANGED <<blockLayouts, focusedBlockId, selectedTodoId,
                   previousLayoutsRef, localStorage, canvasRect,
                   optimisticTodos, focusTrip, focusSize, invalidatedTodos,
                   lastOp, focusCall, loadCall, workspace, wsCall, todoSync, toggleRun>>

\* a measured canvas
PlaceMeasured ==
    \E todos \in PlaceListRects, detail \in PlaceDetails, canvas \in PlaceCanvases :
        PlaceCall(todos, detail, canvas, Viewport)

\* canvasRect is null: the viewport size is used
PlaceUnmeasured ==
    \E todos \in PlaceListRects, detail \in PlaceDetails, window \in PlaceViewports :
        PlaceCall(todos, detail, <<>>, window)

PlacementNext == PlaceMeasured \/ PlaceUnmeasured

PlacementSpec == PlacementInit /\ [][PlacementNext]_vars

----------------------------------------------------------------------------
(* Calls of the workspace collection functions, threaded from the empty    *)
(* state, and direct calls of the layout updaters on enumerated layouts    *)

WsLayoutRaised == [createDefaultLayouts.todos EXCEPT !.z = 2]
WsLayoutMoved == [createDefaultLayouts.todoDetails EXCEPT !.x = Px(48)]

\* the item passed to addWorkspaceItem for project p
DroppedItem(p) ==
    WorkspaceItem(p, "alpha", createDefaultLayouts.todos,
                  createDefaultLayouts.todoDetails, NoTodo)

\* updates of every shape for project 1, renames for the others
WsUpdates(p) ==
    IF p = 1
    THEN {<<>>,
          [projectName |-> "beta"],
          [todosLayout |-> WsLayoutRaised],
          [detailsLayout |-> WsLayoutMoved],
          [selectedTodoId |-> 1],
          [selectedTodoId |-> NoTodo],
          [projectName |-> "alpha",
           todosLayout |-> createDefaultLayouts.todos,
           detailsLayout |-> createDefaultLayouts.todoDetails,
           selectedTodoId |-> NoTodo]}
    ELSE {<<>>, [projectName |-> "beta"]}

\* layouts with both blocks, with one block only, and loaded from a stored
\* record whose z values are below zero
WsLayoutInputs ==
    {createDefaultLayouts,
     [b \in {"todos"} |-> createDefaultLayouts[b]],
     [b \in {"todoDetails"} |-> createDefaultLayouts[b]],
     loadLayouts(ObjectItem([b \in BLOCK_IDS |->
                    [z |-> JsonNumber(IF b = "todos" THEN 0 - 3 ELSE 0 - 2)]]))}

WorkspaceInit ==
    /\ blockLayouts = createDefaultLayouts
    /\ localStorage = stringifyLayouts(createDefaultLayouts)
    /\ focusedBlockId = NoBlock
    /\ selectedTodoId = NoTodo
    /\ previousLayoutsRef = <<>>
    /\ canvasRect = Size(1200, 800)
    /\ optimisticTodos = [t \in TodoIds |-> "absent"]
    /\ focusTrip = NoTrip
    /\ focusSize = [id \in BLOCK_IDS |-> {}]
    /\ invalidatedTodos = {}
    /\ lastOp = NoOp
    /\ placeCall = NoCall
    /\ focusCall = NoCall
    /\ loadCall = NoCall
    /\ todoSync = NoSync
    /\ toggleRun = <<>>
    /\ workspace = EmptyWorkspace
    /\ wsCall = NoWsCall

\* state = f(state, ...): the caller keeps the returned state
WsReturn(op, id, arg, result) ==
    /\ workspace' = result.state
    /\ wsCall' = [op |-> op, id |-> id, arg |-> arg, before |-> workspace,
                  after |-> result.state, identical |-> result.identical]
    /\ UNCHANGED <<pageVars, todoSync, toggleRun>>

WsAdd ==
    \E p \in ProjectIds :
        WsReturn("add", p, DroppedItem(p),
                 addWorkspaceItem(workspace, DroppedItem(p)))

WsUpdate ==
    \E p \in ProjectIds : \E updates \in WsUpdates(p) :
        WsReturn("update", p, updates,
                 updateWorkspaceItem(workspace, p, updates))

WsRemove ==
    \E p \in ProjectIds :
        WsReturn("remove", p, <<>>, removeWorkspaceItem(workspace, p))

\* an updater applied to a layouts object; it returns its argument itself
\* exactly when the result is unchanged, every other branch assigns a new z
WsUpdaterCall(op, id, arg, layouts, result, again) ==
    /\ wsCall.op = "none"
    /\ wsCall' = [op |-> op, id |-> id, arg |-> arg, before |-> layouts,
                  after |-> result, identical |-> result = layouts,
                  again |-> again]
    /\ UNCHANGED <<workspace, pageVars, todoSync, toggleRun>>

WsUpdateLayout ==
    \E layouts \in WsLayoutInputs, id \in BLOCK_IDS :
        LET next == [x |-> Px(100), y |-> Px(100)]
        IN  WsUpdaterCall("updateLayout", id, next, layouts,
                          updateLayout(layouts, id, next),
                          updateLayout(updateLayout(layouts, id, next), id, next))

WsRaiseBlock ==
    \E layouts \in WsLayoutInputs, id \in BLOCK_IDS :
        WsUpdaterCall("raiseBlock", id, <<>>, layouts, raiseBlock(layouts, id),
                      raiseBlock(raiseBlock(layouts, id), id))

WorkspaceNext ==
    \/ WsAdd
    \/ WsUpdate
    \/ WsRemove
    \/ WsUpdateLayout
    \/ WsRaiseBlock

WorkspaceSpec == WorkspaceInit /\ [][WorkspaceNext]_vars

----------------------------------------------------------------------------
(* Direct calls of computeFocusLayout on enumerated inputs                 *)

FocusLayouts ==
    {createDefaultLayouts.todos, createDefaultLayouts.todoDetails} \cup
    {WithZ([x |-> Px(48), y |-> Px(48), width |-> Px(s[1]), height |-> Px(s[2])], 1) :
        s \in {<<360, 420>>, <<320, 360>>, <<900, 1000>>}}

FocusCanvases ==
    {[width |-> Px(w), height |-> Px(h)] :
        w \in {0, 300, 483, 484, 651, 1200}, h \in {380, 543, 544, 800}}

\* one call per behaviour: the function keeps no state between calls
FocusCall(layout, canvas, window) ==
    /\ ~focusCall.called
    /\ focusCall' =
          [called |-> TRUE, layout |-> layout,
           cw |-> containerWidth(canvas, window),
           ch |-> containerHeight(canvas, window),
           result |-> computeFocusLayout(layout, canvas, window)]
    /\ UNCHANGED <<blockLayouts, focusedBlockId, selectedTodoId,
                   previousLayoutsRef, localStorage, canvasRect,
                   optimisticTodos, focusTrip, focusSize, invalidatedTodos,
                   lastOp, placeCall, loadCall, workspace, wsCall, todoSync, toggleRun>>

\* a measured canvas
FocusMeasured ==
    \E layout \in FocusLayouts, canvas \in FocusCanvases :
        FocusCall(layout, canvas, Viewport)

\* canvasRect is null: the viewport size is used
FocusUnmeasured ==
    \E layout \in FocusLayouts, window \in PlaceViewports :
        FocusCall(layout, <<>>, window)

FocusNext == FocusMeasured \/ FocusUnmeasured

FocusSpec == PlacementInit /\ [][FocusNext]_vars

----------------------------------------------------------------------------
(* Direct calls of loadLayouts on enumerated stored items                  *)

\* JSON text that parses to null, a number, a string or an array
ScalarItem == [kind |-> "scalar", value |-> <<>>]

\* per field of the stored "todos" layout: missing, a number or a string
LoadShapes ==
    {k \in [FIELDS -> {"missing", "number", "string"}] :
        k.y = "number" /\ k.height = "number"}

\* a stored layout of shape k, with a field that is not a layout field
StoredLayout(k) ==
    [f \in {g \in FIELDS : k[g] # "missing"} \cup {"title"} |->
        IF f \in FIELDS /\ k[f] = "number" THEN JsonNumber(8) ELSE JsonString]

\* a stored object: "todos" of shape k, "todoDetails" missing, numeric or
\* made of strings, and possibly a block id the page does not know
LoadObject(k, d, n) ==
    [b \in {"todos"} \cup (IF d = "missing" THEN {} ELSE {"todoDetails"})
                     \cup (IF n THEN {"notes"} ELSE {}) |->
        IF b = "todos" THEN StoredLayout(k)
        ELSE IF b = "todoDetails"
             THEN [f \in FIELDS |->
                      IF d = "number" THEN JsonNumber(12) ELSE JsonString]
             ELSE [f \in FIELDS |-> JsonNumber(16)]]

\* ... or a record whose z values are numbers below zero
LoadItems ==
    {AbsentItem, UnparsableItem, ScalarItem,
     ObjectItem([b \in BLOCK_IDS |->
                    [z |-> JsonNumber(IF b = "todos" THEN 0 - 3 ELSE 0 - 2)]])}
        \cup
    {ObjectItem(LoadObject(k, d, n)) :
        k \in LoadShapes, d \in {"missing", "number", "string"}, n \in BOOLEAN}

\* one call per behaviour: the function keeps no state between calls; the
\* loaded layouts, and each part of them, are then given to getNextZ
LoadCall ==
    /\ ~loadCall.called
    /\ \E item \in LoadItems :
          loadCall' = [called |-> TRUE, item |-> item,
                       result |-> loadLayouts(item),
                       nextZ |-> [ids \in SUBSET BLOCK_IDS |->
                                    getNextZ([b \in ids |-> loadLayouts(item)[b]])]]
    /\ UNCHANGED <<blockLayouts, focusedBlockId, selectedTodoId,
                   previousLayoutsRef, localStorage, canvasRect,
                   optimisticTodos, focusTrip, focusSize, invalidatedTodos,
                   lastOp, placeCall, focusCall, workspace, wsCall, todoSync, toggleRun>>

LoadSpec == PlacementInit /\ [][LoadCall]_vars

----------------------------------------------------------------------------
(* The focus handlers of the multi-project component                       *)
(* (src/features/todos/components/WorkspaceProjectItem.tsx).  Its layouts, *)
(* focus target and selection are props owned by the parent page, which    *)
(* receives the callbacks below; block "todoDetails" is its "details".     *)
(* focusTrip.phase is "entered" while the focus in progress began with a   *)
(* remembered layout and "auto" while it began without one.                *)

MaxItemZ == 6

\* parent callbacks: the layout update is merged and the block bumped, the
\* block is raised, the focus target and the selection are replaced
onUpdateLayout(layouts, block, layout) == updateLayout(layouts, block, layout)
onActivateBlock(layouts, block) == raiseBlock(layouts, block)
onFocusChange(focused, block) == block
onSelectedTodoChange(selected, todoId) == todoId

ItemInit ==
    /\ blockLayouts = createDefaultLayouts
    /\ localStorage = stringifyLayouts(createDefaultLayouts)
    /\ focusedBlockId = NoBlock
    /\ selectedTodoId = NoTodo
    /\ previousLayoutsRef = <<>>
    /\ canvasRect = Size(1200, 800)
    /\ optimisticTodos = [t \in TodoIds |-> "active"]
    /\ focusTrip = NoTrip
    /\ focusSize = [id \in BLOCK_IDS |-> {}]
    /\ invalidatedTodos = {}
    /\ lastOp = NoOp
    /\ placeCall = NoCall
    /\ focusCall = NoCall
    /\ loadCall = NoCall
    /\ todoSync = NoSync
    /\ toggleRun = <<>>
    /\ workspace = EmptyWorkspace
    /\ wsCall = NoWsCall

ItemFrame ==
    UNCHANGED <<localStorage, canvasRect, optimisticTodos, focusSize,
                invalidatedTodos, placeCall, focusCall, loadCall, workspace,
                wsCall, todoSync, toggleRun>>

\* handleToggleFocus(block)
ItemToggleFocus(id) ==
    /\ id = "todos" \/ selectedTodoId # NoTodo
    /\ getNextZ(blockLayouts) <= MaxItemZ
    /\ IF focusedBlockId = id
       THEN /\ blockLayouts' =
                  (IF id \in DOMAIN previousLayoutsRef
                   THEN onUpdateLayout(blockLayouts, id, previousLayoutsRef[id])
                   ELSE blockLayouts)
            /\ previousLayoutsRef' = forget(previousLayoutsRef, id)
            /\ focusedBlockId' = onFocusChange(focusedBlockId, NoBlock)
            /\ focusTrip' = NoTrip
            /\ lastOp' = Ran("focusExit", id)
       ELSE /\ previousLayoutsRef' =
                  remember(previousLayoutsRef, id, blockLayouts[id])
            /\ blockLayouts' =
                  onActivateBlock(
                      onUpdateLayout(blockLayouts, id,
                                     computeFocusLayout(blockLayouts[id],
                                                        canvasRect, Viewport)),
                      id)
            /\ focusedBlockId' = onFocusChange(focusedBlockId, id)
            /\ focusTrip' =
                  [phase |-> "entered", id |-> id, from |-> focusedBlockId,
                   pre |-> Rect(blockLayouts[id]),
                   mid |-> Rect(computeFocusLayout(blockLayouts[id],
                                                   canvasRect, Viewport))]
            /\ lastOp' = Ran("focusEnter", id)
    /\ selectedTodoId' = selectedTodoId
    /\ ItemFrame

\* handleSelectTodo(todo): the details block is placed and becomes the
\* focus target; nothing is remembered
ItemSelectTodo(t) ==
    /\ optimisticTodos[t] = "active"
    /\ getNextZ(blockLayouts) <= MaxItemZ
    /\ LET placement ==
               computeDetailBlockPlacement(blockLayouts.todos,
                                           blockLayouts.todoDetails,
                                           canvasRect, Viewport)
       IN  /\ blockLayouts' =
                 onActivateBlock(
                     onUpdateLayout(blockLayouts, "todoDetails", placement),
                     "todoDetails")
           /\ focusTrip' =
                 (IF focusedBlockId = "todoDetails" THEN focusTrip
                  ELSE [phase |-> "auto", id |-> "todoDetails",
                        from |-> focusedBlockId,
                        pre |-> placement, mid |-> placement])
    /\ focusedBlockId' = onFocusChange(focusedBlockId, "todoDetails")
    /\ selectedTodoId' = onSelectedTodoChange(selectedTodoId, t)
    /\ lastOp' = Ran("select", "todoDetails")
    /\ UNCHANGED previousLayoutsRef
    /\ ItemFrame

\* handleCloseDetails
ItemCloseDetails ==
    /\ selectedTodoId # NoTodo
    /\ selectedTodoId' = onSelectedTodoChange(selectedTodoId, NoTodo)
    /\ focusedBlockId' =
          (IF focusedBlockId = "todoDetails"
           THEN onFocusChange(focusedBlockId, NoBlock) ELSE focusedBlockId)
    /\ focusTrip' = (IF focusedBlockId = "todoDetails" THEN NoTrip ELSE focusTrip)
    /\ lastOp' = NoOp
    /\ UNCHANGED <<blockLayouts, previousLayoutsRef>>
    /\ ItemFrame

\* handleTodosDragStop / handleDetailsDragStop
ItemDragStop(id) ==
    /\ id = "todos" \/ selectedTodoId # NoTodo
    /\ getNextZ(blockLayouts) <= MaxItemZ
    /\ \E p \in DragPositions :
          blockLayouts' = onUpdateLayout(blockLayouts, id, p)
    /\ lastOp' = Ran("drag", id)
    /\ UNCHANGED <<focusedBlockId, selectedTodoId, previousLayoutsRef, focusTrip>>
    /\ ItemFrame

ItemNext ==
    \/ \E id \in BLOCK_IDS : ItemToggleFocus(id)
    \/ \E t \in TodoIds : ItemSelectTodo(t)
    \/ ItemCloseDetails
    \/ \E id \in BLOCK_IDS : ItemDragStop(id)

ItemSpec == ItemInit /\ [][ItemNext]_vars

----------------------------------------------------------------------------
(* Optimistic todo mutations of the Home component: the confirmed list     *)
(* (useState todos), the rows of the page's project on the server, and the *)
(* optimistic actions laid over the confirmed list by useOptimistic.       *)
(* Server actions are dispatched one at a time, in the order they were     *)
(* started; a call is processed and its response handled in one step.      *)
(* React keeps the optimistic actions until every transition in flight has *)
(* finished, then drops them all.                                          *)

MaxPending == 2

Extend(list, id, todo) ==
    [i \in DOMAIN list \cup {id} |-> IF i = id THEN todo ELSE list[i]]

\* normalizeTodoRecord: a server row as the client receives it, without an
\* optimistic flag
normalizeTodoRecord(id, done) == [id |-> id, done |-> done, optimistic |-> FALSE]

\* getTodos: the rows of the project, as received
getTodos(server) ==
    [i \in DOMAIN server.rows |->
        [done |-> normalizeTodoRecord(i, server.rows[i]).done,
         optimistic |-> normalizeTodoRecord(i, server.rows[i]).optimistic]]

Failure(server, error) ==
    [success |-> FALSE, hasData |-> FALSE, data |-> normalizeTodoRecord(0, FALSE),
     error |-> error, server |-> server]

Success(server, hasData, data) ==
    [success |-> TRUE, hasData |-> hasData, data |-> data, error |-> "",
     server |-> server]

\* getAuthenticatedUser without a user
AuthError == "You must be logged in to perform this action"

\* createTodo: inserts a row with done = false and returns it
createTodo(server, outcome) ==
    IF outcome = "auth" THEN Failure(server, AuthError)
    ELSE IF outcome = "db" THEN Failure(server, "Failed to create todo")
    ELSE Success([rows |-> Extend(server.rows, server.nextId, FALSE),
                  nextId |-> server.nextId + 1],
                 TRUE, normalizeTodoRecord(server.nextId, FALSE))

\* toggleTodo: validates the id, reads the row's done and writes its negation
toggleTodo(server, id, outcome) ==
    IF id <= 0 THEN Failure(server, "Invalid todo ID")
    ELSE IF outcome = "auth" THEN Failure(server, AuthError)
    ELSE IF id \notin DOMAIN server.rows
         THEN Failure(server, "Todo not found or access denied")
    ELSE IF outcome = "db" THEN Failure(server, "Failed to toggle todo")
    ELSE Success([server EXCEPT !.rows[id] = ~@], TRUE,
                 normalizeTodoRecord(id, ~server.rows[id]))

\* deleteTodo: validates the id and deletes the matching rows, if any
deleteTodo(server, id, outcome) ==
    IF id <= 0 THEN Failure(server, "Invalid todo ID")
    ELSE IF outcome = "auth" THEN Failure(server, AuthError)
    ELSE IF outcome = "db" THEN Failure(server, "Failed to delete todo")
    ELSE Success([server EXCEPT !.rows = [i \in DOMAIN @ \ {id} |-> @[i]]],
                 FALSE, normalizeTodoRecord(0, FALSE))

\* clearCompletedTodos: deletes the rows of the project with done = true
clearCompletedTodos(server, outcome) ==
    IF outcome = "auth" THEN Failure(server, AuthError)
    ELSE IF outcome = "db" THEN Failure(server, "Failed to clear completed todos")
    ELSE Success([server EXCEPT !.rows =
                     [i \in {j \in DOMAIN @ : ~@[j]} |-> @[i]]],
                 FALSE, normalizeTodoRecord(0, FALSE))

\* the reducer given to useOptimistic
optimisticReducer(currentTodos, action) ==
    CASE action.type = "create" ->
            Extend(currentTodos, action.id, [done |-> FALSE, optimistic |-> TRUE])
      [] action.type = "toggle" ->
            [i \in DOMAIN currentTodos |->
                IF i = action.id
                THEN [done |-> ~currentTodos[i].done, optimistic |-> TRUE]
                ELSE currentTodos[i]]
      [] action.type = "delete" ->
            [i \in DOMAIN currentTodos \ {action.id} |-> currentTodos[i]]
      [] action.type = "clearCompleted" ->
            [i \in {j \in DOMAIN currentTodos : ~currentTodos[j].done} |->
                currentTodos[i]]
      [] OTHER -> currentTodos

\* useOptimistic(todos, reducer): the kept actions applied in order
RECURSIVE useOptimistic(_, _)
useOptimistic(todos, actions) ==
    IF actions = <<>> THEN todos
    ELSE useOptimistic(optimisticReducer(todos, Head(actions)), Tail(actions))

\* the list the page displays
displayedTodos == useOptimistic(todoSync.todos, todoSync.overlay)

\* handleSubmit after the await: a mutant that keeps the optimistic todo
setTodosAfterCreateKeepTemp(previous, tempId, result) ==
    IF result.success /\ result.hasData
    THEN Extend(previous, result.data.id,
                [done |-> result.data.done, optimistic |-> FALSE])
    ELSE Extend(previous, tempId, [done |-> FALSE, optimistic |-> TRUE])

\* handleSubmit after the await
setTodosAfterCreate(previous, tempId, result) ==
    IF result.success /\ result.hasData
    THEN Extend(previous, result.data.id,
                [done |-> result.data.done, optimistic |-> result.data.optimistic])
    ELSE previous

\* handleToggleTodo after the await
setTodosAfterToggle(previous, id, result) ==
    IF result.success /\ result.hasData
    THEN [i \in DOMAIN previous |->
            IF i = id
            THEN [done |-> result.data.done, optimistic |-> result.data.optimistic]
            ELSE previous[i]]
    ELSE previous

\* handleRemoveTodo after the await
setTodosAfterDelete(previous, id, result) ==
    IF result.success
    THEN [i \in DOMAIN previous \ {id} |-> previous[i]]
    ELSE previous

\* handleClearCompleted after the await
setTodosAfterClear(previous, result) ==
    IF result.success
    THEN [i \in {j \in DOMAIN previous : ~previous[j].done} |-> previous[i]]
    ELSE previous

\* loadTodos: getTodos succeeded (setTodos, setIsAuthenticated(true)) or
\* failed (setError, setIsAuthenticated(false)); the rows are those the
\* page's project can hold, and ids are never reused
LoadedSyncs ==
    LET Servers ==
            {sv \in [rows : UNION {[ids -> BOOLEAN] : ids \in SUBSET TodoIds},
                     nextId : 1..(MaxTodos + 1)] :
                \A i \in DOMAIN sv.rows : i < sv.nextId}
    IN  {[NoSync EXCEPT !.server = server, !.todos = getTodos(server),
                        !.isAuthenticated = TRUE] : server \in Servers}
            \cup
        {[NoSync EXCEPT !.server = server, !.error = AuthError] :
            server \in Servers}

OptimisticInit ==
    /\ blockLayouts = createDefaultLayouts
    /\ localStorage = stringifyLayouts(createDefaultLayouts)
    /\ focusedBlockId = NoBlock
    /\ selectedTodoId = NoTodo
    /\ previousLayoutsRef = <<>>
    /\ canvasRect = Size(1200, 800)
    /\ optimisticTodos = [t \in TodoIds |-> "absent"]
    /\ focusTrip = NoTrip
    /\ focusSize = [id \in BLOCK_IDS |-> {}]
    /\ invalidatedTodos = {}
    /\ lastOp = NoOp
    /\ placeCall = NoCall
    /\ focusCall = NoCall
    /\ loadCall = NoCall
    /\ workspace = EmptyWorkspace
    /\ wsCall = NoWsCall
    /\ todoSync \in LoadedSyncs
    /\ toggleRun = <<>>

\* the calls started and not yet settled
InFlight == Len(todoSync.overlay) - todoSync.settled

\* setError(null); startTransition: updateOptimisticTodos(action), then the call
Started(action) ==
    /\ Len(todoSync.overlay) < MaxPending
    /\ todoSync' = [todoSync EXCEPT
                      !.error = NoError,
                      !.overlay = Append(@, action),
                      !.last = [step |-> "start", action |-> action,
                                shown |-> displayedTodos]]
    /\ UNCHANGED <<pageVars, workspace, wsCall, toggleRun>>

\* handleSubmit with a non-empty text and a temporary id no entry carries
handleSubmit(tempId) ==
    IF ~todoSync.isAuthenticated
    THEN /\ todoSync' = [todoSync EXCEPT
                           !.error = "Please sign in to add todos",
                           !.last = [step |-> "none"]]
         /\ UNCHANGED <<pageVars, workspace, wsCall, toggleRun>>
    ELSE LET creates == {k \in 1..Len(todoSync.overlay) :
                            todoSync.overlay[k].type = "create"}
         IN  /\ tempId \notin DOMAIN displayedTodos
             /\ \A k \in creates : todoSync.overlay[k].id # tempId
             /\ todoSync.server.nextId - 1 + Cardinality(creates) < MaxTodos
             /\ Started([type |-> "create", id |-> tempId])

\* handleToggleTodo of a displayed todo
handleToggleTodo(id) ==
    /\ id \in DOMAIN displayedTodos
    /\ Started([type |-> "toggle", id |-> id])

\* handleRemoveTodo of a displayed todo
handleRemoveTodo(id) ==
    /\ id \in DOMAIN displayedTodos
    /\ Started([type |-> "delete", id |-> id])

\* handleClearCompleted
handleClearCompleted ==
    Started([type |-> "clearCompleted", id |-> 0])

\* the oldest call in flight settles: the server runs the action and the
\* handler resumes after its await with the result (setTodos on success,
\* setError(result.error || fallback) otherwise); the optimistic actions are
\* dropped once no call is in flight
Settle(outcome) ==
    /\ InFlight > 0
    /\ LET action == todoSync.overlay[todoSync.settled + 1]
           type == action.type
           result ==
               CASE type = "create" -> createTodo(todoSync.server, outcome)
                 [] type = "toggle" -> toggleTodo(todoSync.server, action.id, outcome)
                 [] type = "delete" -> deleteTodo(todoSync.server, action.id, outcome)
                 [] type = "clearCompleted" ->
                        clearCompletedTodos(todoSync.server, outcome)
           next ==
               CASE type = "create" ->
                        setTodosAfterCreate(todoSync.todos, action.id, result)
                 [] type = "toggle" ->
                        setTodosAfterToggle(todoSync.todos, action.id, result)
                 [] type = "delete" ->
                        setTodosAfterDelete(todoSync.todos, action.id, result)
                 [] type = "clearCompleted" ->
                        setTodosAfterClear(todoSync.todos, result)
           fallback ==
               CASE type = "create" -> "Failed to create todo"
                 [] type = "toggle" -> "Failed to toggle todo"
                 [] type = "delete" -> "Failed to delete todo"
                 [] type = "clearCompleted" -> "Failed to clear completed todos"
           done == todoSync.settled + 1 = Len(todoSync.overlay)
       IN todoSync' = [todoSync EXCEPT
                         !.server = result.server,
                         !.todos = next,
                         !.error = IF result.success THEN @
                                   ELSE IF result.error # "" THEN result.error
                                   ELSE fallback,
                         !.overlay = IF done THEN <<>> ELSE @,
                         !.settled = IF done THEN 0 ELSE @ + 1,
                         !.last = [step |-> "settle", action |-> action,
                                   success |-> result.success,
                                   data |-> result.data,
                                   before |-> todoSync.todos]]
    /\ UNCHANGED <<pageVars, workspace, wsCall, toggleRun>>

\* temporary ids are negative, todo ids positive
OptimisticNext ==
    \/ \E tempId \in (0 - MaxPending)..(0 - 1) : handleSubmit(tempId)
    \/ \E id \in (0 - MaxPending)..MaxTodos : handleToggleTodo(id)
    \/ \E id \in (0 - MaxPending)..MaxTodos : handleRemoveTodo(id)
    \/ handleClearCompleted
    \/ \E outcome \in {"ok", "auth", "db"} : Settle(outcome)

OptimisticSpec == OptimisticInit /\ [][OptimisticNext]_vars

-----------------------------------------------------------------------------
(* toggleTodo on the server, one database statement at a time: several     *)
(* calls (other tabs or devices of the same user) run on one owned row;    *)
(* each call first selects the row's done column and then, in a second     *)
(* statement, updates the row with the negation of the value it selected   *)

MaxCalls == 3

\* a row with either flag, and MaxCalls calls that have not started
ToggleInit ==
    /\ blockLayouts = createDefaultLayouts
    /\ localStorage = stringifyLayouts(createDefaultLayouts)
    /\ focusedBlockId = NoBlock
    /\ selectedTodoId = NoTodo
    /\ previousLayoutsRef = <<>>
    /\ canvasRect = Size(1200, 800)
    /\ optimisticTodos = [t \in TodoIds |-> "absent"]
    /\ focusTrip = NoTrip
    /\ focusSize = [id \in BLOCK_IDS |-> {}]
    /\ invalidatedTodos = {}
    /\ lastOp = NoOp
    /\ placeCall = NoCall
    /\ focusCall = NoCall
    /\ loadCall = NoCall
    /\ workspace = EmptyWorkspace
    /\ wsCall = NoWsCall
    /\ todoSync = NoSync
    /\ \E done \in BOOLEAN :
         toggleRun = [initial |-> done, done |-> done,
                      calls |-> [c \in 1..MaxCalls |->
                                   [pc |-> "idle", seen |-> FALSE,
                                    success |-> FALSE, data |-> FALSE,
                                    error |-> ""]]]

\* toggleTodo up to the first statement: getAuthenticatedUser, then
\* select("done") ... single(); the value read is kept in currentTodo
toggleTodoSelect(c, outcome) ==
    /\ toggleRun # <<>>
    /\ toggleRun.calls[c].pc = "idle"
    /\ toggleRun' =
         IF outcome = "auth"
         THEN [toggleRun EXCEPT !.calls[c].pc = "returned",
                                !.calls[c].error = AuthError]
         ELSE IF outcome = "db"
         THEN [toggleRun EXCEPT !.calls[c].pc = "returned",
                                !.calls[c].error = "Todo not found or access denied"]
         ELSE [toggleRun EXCEPT !.calls[c].pc = "selected",
                                !.calls[c].seen = toggleRun.done]
    /\ UNCHANGED <<pageVars, workspace, wsCall, todoSync>>

\* toggleTodo from the second statement: update({ done: !currentTodo.done })
\* ... select().single(), then the response
toggleTodoUpdate(c, outcome) ==
    /\ toggleRun # <<>>
    /\ toggleRun.calls[c].pc = "selected"
    /\ toggleRun' =
         IF outcome = "db"
         THEN [toggleRun EXCEPT !.calls[c].pc = "returned",
                                !.calls[c].error = "Failed to toggle todo"]
         ELSE [toggleRun EXCEPT !.done = ~toggleRun.calls[c].seen,
                                !.calls[c].pc = "returned",
                                !.calls[c].success = TRUE,
                                !.calls[c].data = ~toggleRun.calls[c].seen]
    /\ UNCHANGED <<pageVars, workspace, wsCall, todoSync>>

ToggleNext ==
    \/ \E c \in 1..MaxCalls, outcome \in {"ok", "auth", "db"} : toggleTodoSelect(c, outcome)
    \/ \E c \in 1..MaxCalls, outcome \in {"ok", "db"} : toggleTodoUpdate(c, outcome)

ToggleSpec == ToggleInit /\ [][ToggleNext]_vars

----------------------------------------------------------------------------
(* Properties of the placement engine, stated on the recorded call         *)

Intersects(a, b) ==
    /\ a.x < b.x + b.width /\ b.x < a.x + a.width
    /\ a.y < b.y + b.height /\ b.y < a.y + a.height

\* room the four directions offer, and the minimum they are compared with
SpaceRight(c) == c.cw - Px(32) - (c.todos.x + c.todos.width + Px(24))
SpaceLeft(c) == c.todos.x - Px(32) - Px(24)
SpaceBelow(c) == c.ch - Px(32) - (c.todos.y + c.todos.height + Px(24))
SpaceAbove(c) == c.todos.y - Px(32) - Px(24)
RoomRight(c) == SpaceRight(c) >= effectiveMinWidth(c.cw)
RoomLeft(c) == SpaceLeft(c) >= effectiveMinWidth(c.cw)
RoomBelow(c) == SpaceBelow(c) >= effectiveMinHeight(c.ch)
RoomAbove(c) == SpaceAbove(c) >= effectiveMinHeight(c.ch)
RoomSomewhere(c) == RoomRight(c) \/ RoomLeft(c) \/ RoomBelow(c) \/ RoomAbove(c)

\* C1: whenever at least one of the four directions has enough room, the
\* returned rectangle does not intersect the list rectangle.
C1_NonOverlap ==
    (placeCall.called /\ RoomSomewhere(placeCall))
        => ~Intersects(placeCall.result, placeCall.todos)

\* the only room is below the list block, and the details block went there
C1_Witness ==
    /\ placeCall.called
    /\ ~RoomRight(placeCall) /\ ~RoomLeft(placeCall) /\ RoomBelow(placeCall)
    /\ placeCall.result.y >= placeCall.todos.y + placeCall.todos.height

\* C2: unless the container cannot hold the 240x320 floor inside the
\* padding, the returned rectangle lies within the padding on all sides.
C2_Containment ==
    (/\ placeCall.called
     /\ placeCall.cw - Px(64) >= Px(240)
     /\ placeCall.ch - Px(64) >= Px(320))
        => /\ Px(32) <= placeCall.result.x
           /\ placeCall.result.x + placeCall.result.width <= placeCall.cw - Px(32)
           /\ Px(32) <= placeCall.result.y
           /\ placeCall.result.y + placeCall.result.height <= placeCall.ch - Px(32)

\* C3: right, left, below, above in that order, first success wins; with
\* room on the right the result starts at list.x + list.width + 24.
C3_Order ==
    placeCall.called =>
        LET c == placeCall
            r == placeCall.result
        IN  /\ RoomRight(c) => r.x = c.todos.x + c.todos.width + Px(24)
            /\ (~RoomRight(c) /\ RoomLeft(c))
                  => r.x + r.width = c.todos.x - Px(24)
            /\ (~RoomRight(c) /\ ~RoomLeft(c) /\ RoomBelow(c))
                  => r.y = c.todos.y + c.todos.height + Px(24)
            /\ (~RoomRight(c) /\ ~RoomLeft(c) /\ ~RoomBelow(c) /\ RoomAbove(c))
                  => r.y + r.height = c.todos.y - Px(24)
            /\ ~RoomSomewhere(c)
                  => /\ r.x = Max(Half(c.cw - r.width), Px(32))
                     /\ r.y = Max(Half(c.ch - r.height), Px(32))

\* room on both sides of the list block: the right side is taken
C3_Witness ==
    /\ placeCall.called
    /\ RoomRight(placeCall) /\ RoomLeft(placeCall)
    /\ placeCall.result.x > placeCall.todos.x

\* the inputs of the two documented scenarios
ScenarioList == [x |-> Px(48), y |-> Px(48), width |-> Px(520), height |-> Px(660)]

\* C4: when no direction has room the function still returns a rectangle:
\* the clamped preferred size, centred, with x and y at least the padding;
\* list {48,48,520,660} in 650x800 gives a rectangle inside [32,618]x[32,768].
C4_FallbackTotal ==
    (placeCall.called /\ ~RoomSomewhere(placeCall)) =>
        LET c == placeCall
            r == placeCall.result
        IN  /\ DOMAIN r = {"x", "y", "width", "height"}
            /\ r.width = preferredWidth(c.detail, c.cw)
            /\ r.height = preferredHeight(c.detail, c.ch)
            /\ r.x = Max(Half(c.cw - r.width), Px(32))
            /\ r.y = Max(Half(c.ch - r.height), Px(32))
            /\ (c.todos = ScenarioList /\ c.cw = Px(650) /\ c.ch = Px(800))
                  => /\ Px(32) <= r.x /\ r.x + r.width <= Px(618)
                     /\ Px(32) <= r.y /\ r.y + r.height <= Px(768)
                     /\ r.x + r.x + r.width = c.cw
                     /\ r.y + r.y + r.height = c.ch

\* the documented 650x800 scenario, which ends in the centred fallback
C4_Witness ==
    /\ placeCall.called
    /\ ~RoomSomewhere(placeCall)
    /\ SpaceLeft(placeCall) < 0 /\ SpaceAbove(placeCall) < 0
    /\ placeCall.todos = ScenarioList
    /\ placeCall.cw = Px(650) /\ placeCall.ch = Px(800)
    /\ placeCall.detail = <<>>
    /\ placeCall.result = [x |-> Px(115), y |-> Px(140),
                           width |-> Px(420), height |-> Px(520)]

\* C5: list {48,48,520,660}, container 1200x800, no previous details
\* layout: the result is exactly {592, 48, 420, 520}.
C5_Scenario ==
    (/\ placeCall.called
     /\ placeCall.todos = ScenarioList
     /\ placeCall.cw = Px(1200) /\ placeCall.ch = Px(800)
     /\ placeCall.detail = <<>>)
        => placeCall.result = [x |-> Px(592), y |-> Px(48),
                               width |-> Px(420), height |-> Px(520)]

\* the scenario's call has been made
C5_Witness ==
    /\ placeCall.called
    /\ placeCall.todos = ScenarioList
    /\ placeCall.cw = Px(1200) /\ placeCall.ch = Px(800)
    /\ placeCall.detail = <<>>
    /\ placeCall.result.x = Px(592)

\* C6: with a container of zero width or height the result is the centred
\* fallback and none of x, y, width, height is negative.
C6_Degenerate ==
    (placeCall.called /\ (placeCall.cw <= 0 \/ placeCall.ch <= 0)) =>
        /\ placeCall.result = centredFallback(placeCall.detail, placeCall.cw, placeCall.ch)
        /\ placeCall.result.x >= 0 /\ placeCall.result.y >= 0
        /\ placeCall.result.width >= 0 /\ placeCall.result.height >= 0

----------------------------------------------------------------------------
(* Properties of the focus engine and of persistence                       *)

\* C7: toggleFocus(id) on a block that is not focused, followed at once by
\* toggleFocus(id), leaves the block with the x, y, width and height it had
\* before the first call.
C7_FocusRoundTrip ==
    focusTrip.phase = "exited"
        => Rect(blockLayouts[focusTrip.id]) = focusTrip.pre

\* a round trip during which the block really had another rectangle
C7_Witness ==
    /\ focusTrip.phase = "exited"
    /\ focusTrip.mid # focusTrip.pre
    /\ focusedBlockId = NoBlock

\* C8: the focus target is one block or none, and toggleFocus(B) while
\* another block A is the target makes B the target instead of A.
C8_SingleFocus ==
    /\ focusedBlockId \in BLOCK_IDS \cup {NoBlock}
    /\ focusTrip.phase = "entered"
          => /\ focusedBlockId = focusTrip.id
             /\ focusedBlockId # focusTrip.from

\* toggleFocus(B) has just been called while A was focused
C8_Witness ==
    /\ focusTrip.phase = "entered"
    /\ focusTrip.from \in BLOCK_IDS
    /\ focusTrip.from # focusTrip.id
    /\ focusedBlockId = focusTrip.id

\* C9: the side table holds a remembered layout for a block only while
\* that block is the focused block.
C9_SideTableOnlyWhileFocused ==
    \A id \in DOMAIN previousLayoutsRef : focusedBlockId = id

\* the sizes of the stored record, per block
StoredSize(id) ==
    [width |-> localStorage.value[id].width.v,
     height |-> localStorage.value[id].height.v]

\* C10: no rectangle in local storage has a size that computeFocusLayout
\* gave the block (and the user did not choose by resizing).
C10_NoFocusGeometryStored ==
    localStorage.kind = "object"
        => \A id \in BLOCK_IDS : StoredSize(id) \notin focusSize[id]

\* C11: a step that ends with some block focused writes nothing to local
\* storage, whatever it did to the layouts.
C11_NoWriteWhileFocused ==
    [][focusedBlockId' # NoBlock => localStorage' = localStorage]_vars

\* a block is focused and the layouts have moved away from the stored record
C11_Witness ==
    /\ focusedBlockId # NoBlock
    /\ lastOp.op \in {"drag", "resize", "raise", "select"}
    /\ lastOp.changed
    /\ localStorage # stringifyLayouts(blockLayouts)

\* C12: a selection whose todo became done or left the list is cleared, and
\* stays cleared until that todo is selected again.
C12_SelectionInvalidation ==
    /\ selectedTodoId # NoTodo => optimisticTodos[selectedTodoId] = "active"
    /\ \A t \in invalidatedTodos : selectedTodoId # t

\* an invalidated todo is active again and the details block stays hidden
C12_Witness ==
    /\ \E t \in invalidatedTodos : optimisticTodos[t] = "active"
    /\ selectedTodoId = NoTodo
    /\ ~isDetailVisible(selectedTodoId, optimisticTodos)

----------------------------------------------------------------------------
(* Properties of the stacking order                                        *)

\* C19: after raiseBlock(id), however often it is repeated, no other block
\* has a z above that of block id.
C19_RaisedIsTopmost ==
    lastOp.op = "raise"
        => \A b \in BLOCK_IDS : blockLayouts[lastOp.id].z >= blockLayouts[b].z

\* a raise that had to lift the block over another one
C19_Witness ==
    /\ lastOp.op = "raise"
    /\ lastOp.changed
    /\ blockLayouts[lastOp.id].z >= 3
    /\ \A b \in BLOCK_IDS \ {lastOp.id} : blockLayouts[lastOp.id].z = blockLayouts[b].z + 1

\* C20: right after a drag stop, a resize stop, a focus enter, a focus exit
\* or the selection of a todo, the targeted block's z is strictly above the
\* z of every other block.
C20_TargetBumped ==
    lastOp.op \in {"drag", "resize", "focusEnter", "focusExit", "select"}
        => \A b \in BLOCK_IDS \ {lastOp.id} :
              blockLayouts[lastOp.id].z > blockLayouts[b].z

\* a todo selected after the list block had been brought above the details
C20_Witness ==
    /\ lastOp.op = "select"
    /\ lastOp.id = "todoDetails"
    /\ blockLayouts.todos.z >= 3
    /\ blockLayouts.todoDetails.z > blockLayouts.todos.z

----------------------------------------------------------------------------
(* Properties of the workspace collection, stated on the recorded call     *)

IdsOf(ids) == {ids[i] : i \in 1..Len(ids)}

NoDuplicates(ids) ==
    \A i, j \in 1..Len(ids) : ids[i] = ids[j] => i = j

WsKnown == wsCall.id \in DOMAIN wsCall.before.items

\* C13: after any sequence of add, update and remove calls from the empty
\* state, the ids of orderedProjectIds are exactly the keys of items and
\* none of them is listed twice.
C13_OrderMatchesItems ==
    /\ IdsOf(workspace.orderedProjectIds) = DOMAIN workspace.items
    /\ NoDuplicates(workspace.orderedProjectIds)

\* a removal that leaves two projects, listed in the order they were added
C13_Witness ==
    /\ wsCall.op = "remove"
    /\ WsKnown
    /\ Len(workspace.orderedProjectIds) = 2
    /\ workspace.orderedProjectIds[1] > workspace.orderedProjectIds[2]
    /\ DOMAIN workspace.items = IdsOf(workspace.orderedProjectIds)

\* C14: addWorkspaceItem of a project already present leaves
\* orderedProjectIds as it was; of a new project it appends the id at the end.
C14_AddKeepsOrder ==
    wsCall.op = "add"
        => wsCall.after.orderedProjectIds =
              (IF WsKnown
               THEN wsCall.before.orderedProjectIds
               ELSE Append(wsCall.before.orderedProjectIds, wsCall.id))

\* the first of several projects, changed since, is added again
C14_Witness ==
    /\ wsCall.op = "add"
    /\ WsKnown
    /\ Len(wsCall.before.orderedProjectIds) >= 2
    /\ wsCall.before.orderedProjectIds[1] = wsCall.id
    /\ wsCall.after.items[wsCall.id] # wsCall.before.items[wsCall.id]

\* C15: updateWorkspaceItem with no field, or with fields that all equal
\* the item's current values, returns the state it was given, the same
\* object.
C15_NoOpUpdateReturnsState ==
    (/\ wsCall.op = "update"
     /\ WsKnown
     /\ \A f \in DOMAIN wsCall.arg :
           wsCall.arg[f] = wsCall.before.items[wsCall.id][f])
        => /\ wsCall.identical
           /\ wsCall.after = wsCall.before

\* an update that provides a layout equal to the current one
C15_Witness ==
    /\ wsCall.op = "update"
    /\ WsKnown
    /\ "todosLayout" \in DOMAIN wsCall.arg
    /\ \A f \in DOMAIN wsCall.arg :
          wsCall.arg[f] = wsCall.before.items[wsCall.id][f]
    /\ wsCall.identical

\* C16: updateWorkspaceItem and removeWorkspaceItem of a project that is
\* not in items, and updateLayout and raiseBlock of a block that has no
\* layout, return the state they were given, unchanged.
C16_UnknownIdIsNoOp ==
    /\ (wsCall.op \in {"update", "remove"} /\ ~WsKnown)
          => wsCall.identical /\ wsCall.after = wsCall.before
    /\ (wsCall.op \in {"updateLayout", "raiseBlock"}
            /\ wsCall.id \notin DOMAIN wsCall.before)
          => wsCall.after = wsCall.before

\* a removal of a project that was removed before, others remaining
C16_Witness ==
    /\ wsCall.op = "remove"
    /\ ~WsKnown
    /\ wsCall.before.orderedProjectIds # <<>>
    /\ wsCall.identical

ItemFields ==
    {"projectId", "projectName", "todosLayout", "detailsLayout", "selectedTodoId"}

\* C17: updateWorkspaceItem of a known project gives every provided field
\* the provided value (null included, for selectedTodoId), keeps every
\* other field of the item, every other item and orderedProjectIds.
C17_UpdateFrame ==
    (wsCall.op = "update" /\ WsKnown)
        => /\ DOMAIN wsCall.after.items = DOMAIN wsCall.before.items
           /\ \A f \in ItemFields :
                 wsCall.after.items[wsCall.id][f] =
                    (IF f \in DOMAIN wsCall.arg THEN wsCall.arg[f]
                     ELSE wsCall.before.items[wsCall.id][f])
           /\ \A p \in DOMAIN wsCall.before.items \ {wsCall.id} :
                 wsCall.after.items[p] = wsCall.before.items[p]
           /\ wsCall.after.orderedProjectIds = wsCall.before.orderedProjectIds

\* a selection cleared by an update, next to another project
C17_Witness ==
    /\ wsCall.op = "update"
    /\ WsKnown
    /\ wsCall.arg = [selectedTodoId |-> NoTodo]
    /\ wsCall.before.items[wsCall.id].selectedTodoId # NoTodo
    /\ wsCall.after.items[wsCall.id].selectedTodoId = NoTodo
    /\ wsCall.before.items[wsCall.id].projectName = "beta"
    /\ Len(wsCall.before.orderedProjectIds) >= 2

\* positions of the ids other than projectId keep their relative order
SameRelativeOrder(before, after, projectId) ==
    \A i, j \in 1..Len(before) :
        (i < j /\ before[i] # projectId /\ before[j] # projectId)
            => \E k, l \in 1..Len(after) :
                  k < l /\ after[k] = before[i] /\ after[l] = before[j]

\* C18: removeWorkspaceItem of a known project removes that id, and only
\* that id, from items and from orderedProjectIds; the other items are
\* unchanged and the remaining ids keep their relative order.
C18_RemoveExactlyOne ==
    (wsCall.op = "remove" /\ WsKnown)
        => /\ DOMAIN wsCall.after.items = DOMAIN wsCall.before.items \ {wsCall.id}
           /\ \A p \in DOMAIN wsCall.after.items :
                 wsCall.after.items[p] = wsCall.before.items[p]
           /\ IdsOf(wsCall.after.orderedProjectIds) =
                 IdsOf(wsCall.before.orderedProjectIds) \ {wsCall.id}
           /\ Len(wsCall.after.orderedProjectIds) =
                 Len(wsCall.before.orderedProjectIds) - 1
           /\ SameRelativeOrder(wsCall.before.orderedProjectIds,
                                wsCall.after.orderedProjectIds, wsCall.id)

\* the middle one of three projects is removed
C18_Witness ==
    /\ wsCall.op = "remove"
    /\ WsKnown
    /\ Len(wsCall.before.orderedProjectIds) = 3
    /\ wsCall.before.orderedProjectIds[2] = wsCall.id
    /\ Len(wsCall.after.orderedProjectIds) = 2

----------------------------------------------------------------------------
(* Properties of the stacking order over time, of the focus rectangle,     *)
(* of the rectangles' sizes and of loading                                 *)

\* C21: no operation of the page lowers the z of a block: in every step
\* each block's z is at least what it was before the step.
C21_ZNeverDecreases ==
    [][\A id \in BLOCK_IDS : blockLayouts'[id].z >= blockLayouts[id].z]_vars

\* a focus exit that restored a layout remembered with a lower z
C21_Witness ==
    /\ lastOp.op = "focusExit"
    /\ lastOp.changed
    /\ blockLayouts[lastOp.id].z >= 4

\* C22: in every reachable state the two blocks have different z, from the
\* default layouts as well as from layouts loaded from local storage.
C22_CollisionFree ==
    \A a, b \in BLOCK_IDS : a # b => blockLayouts[a].z # blockLayouts[b].z

\* C25: in every reachable state each block is at least as wide and as high
\* as its minimum (list 360x420, details 320x360).
C25_MinimumSize ==
    \A id \in BLOCK_IDS :
        /\ blockLayouts[id].width >= rndMinSize[id].width
        /\ blockLayouts[id].height >= rndMinSize[id].height

\* C23: computeFocusLayout returns the width max(layout.width, 520) capped
\* at containerWidth - 64 and the height max(layout.height, 580) capped at
\* containerHeight - 64, whatever the layout and the container.
C23_FocusSize ==
    focusCall.called
        => /\ focusCall.result.width =
                 Min(Max(focusCall.layout.width, Px(520)), focusCall.cw - Px(64))
           /\ focusCall.result.height =
                 Min(Max(focusCall.layout.height, Px(580)), focusCall.ch - Px(64))

\* C24: the rectangle returned by computeFocusLayout is centred in the
\* container and lies within the padding: x >= 32, y >= 32,
\* x + width <= containerWidth - 32, y + height <= containerHeight - 32.
C24_FocusCentredInside ==
    focusCall.called
        => LET r == focusCall.result
           IN  /\ r.x = Half(focusCall.cw - r.width)
               /\ r.y = Half(focusCall.ch - r.height)
               /\ r.x >= Px(32)
               /\ r.y >= Px(32)
               /\ r.x + r.width <= focusCall.cw - Px(32)
               /\ r.y + r.height <= focusCall.ch - Px(32)

\* the stored value of field f of block b, when it is a number
StoredNumber(item, b, f) ==
    /\ b \in DOMAIN item.value
    /\ f \in DOMAIN item.value[b]
    /\ item.value[b][f].t = "number"

\* C26: loadLayouts returns the default layouts when nothing is stored or
\* the stored text cannot be parsed; otherwise each of x, y, width, height,
\* z of each block is the stored value when that is a number and the
\* default of that field when not, whatever else the record holds.
C26_LoadFieldByField ==
    loadCall.called
        => LET item == loadCall.item
               result == loadCall.result
           IN  /\ item.kind \in {"absent", "unparsable"}
                     => result = createDefaultLayouts
               /\ DOMAIN result = BLOCK_IDS
               /\ \A b \in BLOCK_IDS :
                     /\ DOMAIN result[b] = FIELDS
                     /\ \A f \in FIELDS :
                           result[b][f] =
                              (IF StoredNumber(item, b, f)
                               THEN item.value[b][f].v
                               ELSE createDefaultLayouts[b][f])

\* a record with a stored number, a string, a missing field, an extra
\* field, no details layout and an unknown block id
C26_Witness ==
    /\ loadCall.called
    /\ loadCall.item.kind = "object"
    /\ DOMAIN loadCall.item.value = {"todos", "notes"}
    /\ StoredNumber(loadCall.item, "todos", "x")
    /\ "width" \in DOMAIN loadCall.item.value.todos
    /\ loadCall.item.value.todos.width.t = "string"
    /\ "z" \notin DOMAIN loadCall.item.value.todos
    /\ loadCall.result.todos.x = 8
    /\ loadCall.result.todos.width = createDefaultLayouts.todos.width
    /\ loadCall.result.todoDetails = createDefaultLayouts.todoDetails

\* C27: a focus exit of a block for which the focus in progress remembered
\* no layout keeps the block's x, y, width and height and ends the focus;
\* no layout remembered during an earlier focus is applied.
C27_ExitWithoutRemembered ==
    [][(focusTrip.phase = "auto" /\ lastOp'.op = "focusExit"
            /\ focusedBlockId = lastOp'.id)
          => /\ Rect(blockLayouts'[lastOp'.id]) = Rect(blockLayouts[lastOp'.id])
             /\ focusedBlockId' = NoBlock]_vars

----------------------------------------------------------------------------
(* Properties of the re-placement of the details block                     *)

\* the step is a window resize
IsWindowResize == canvasRect' # canvasRect

\* the step is a drag stop or a resize stop that gave the list block
\* another rectangle
IsListMove == /\ lastOp'.op \in {"drag", "resize"}
              /\ lastOp'.id = "todos"
              /\ Rect(blockLayouts'.todos) # Rect(blockLayouts.todos)

\* C28: a window resize, a move or a resize of the list block while the
\* details block is visible leaves the details rectangle equal to
\* computeDetailBlockPlacement(list layout, details layout, container) and
\* changes nothing else: the details z, the list layout (beyond the move
\* itself), the selection and the focus target are kept.
C28_Replacement ==
    [][(isDetailVisible(selectedTodoId, optimisticTodos)
            /\ (IsWindowResize \/ IsListMove))
          => /\ Rect(blockLayouts'.todoDetails) =
                   computeDetailBlockPlacement(blockLayouts'.todos,
                                               blockLayouts.todoDetails,
                                               canvasRect', Viewport)
             /\ blockLayouts'.todoDetails.z = blockLayouts.todoDetails.z
             /\ IsWindowResize => blockLayouts'.todos = blockLayouts.todos
             /\ selectedTodoId' = selectedTodoId
             /\ focusedBlockId' = focusedBlockId]_vars

\* the list block was dragged to where the details block no longer fits on
\* its right, and the details block now stands on its left
C28_Witness ==
    /\ lastOp.op = "drag"
    /\ lastOp.id = "todos"
    /\ isDetailVisible(selectedTodoId, optimisticTodos)
    /\ blockLayouts.todos.x = Px(400)
    /\ blockLayouts.todoDetails.x + blockLayouts.todoDetails.width
          <= blockLayouts.todos.x

\* the displayed list shows the optimistic edit of an action on the list
\* that was displayed before it
ShowsEdit(action, shown, now) ==
    CASE action.type = "create" ->
            /\ action.id \in DOMAIN now
            /\ action.id < 0
            /\ now[action.id] = [done |-> FALSE, optimistic |-> TRUE]
            /\ \A i \in DOMAIN shown : i \in DOMAIN now /\ now[i] = shown[i]
      [] action.type = "toggle" ->
            /\ DOMAIN now = DOMAIN shown
            /\ \A i \in DOMAIN shown :
                  IF i = action.id
                  THEN now[i].done = ~shown[i].done /\ now[i].optimistic
                  ELSE now[i] = shown[i]
      [] action.type = "delete" ->
            /\ DOMAIN now = DOMAIN shown \ {action.id}
            /\ \A i \in DOMAIN now : now[i] = shown[i]
      [] action.type = "clearCompleted" ->
            /\ DOMAIN now = {i \in DOMAIN shown : ~shown[i].done}
            /\ \A i \in DOMAIN now : now[i] = shown[i]

\* the confirmed list holds the result of a call that succeeded
HoldsResult(action, data, before, todos) ==
    CASE action.type = "create" ->
            /\ data.id > 0
            /\ DOMAIN todos = DOMAIN before \cup {data.id}
            /\ todos[data.id] = [done |-> data.done, optimistic |-> FALSE]
            /\ \A i \in DOMAIN before \ {data.id} : todos[i] = before[i]
      [] action.type = "toggle" ->
            /\ DOMAIN todos = DOMAIN before
            /\ \A i \in DOMAIN before :
                  todos[i] = IF i = action.id
                             THEN [done |-> data.done, optimistic |-> FALSE]
                             ELSE before[i]
      [] action.type = "delete" ->
            /\ DOMAIN todos = DOMAIN before \ {action.id}
            /\ \A i \in DOMAIN todos : todos[i] = before[i]
      [] action.type = "clearCompleted" ->
            /\ DOMAIN todos = {i \in DOMAIN before : ~before[i].done}
            /\ \A i \in DOMAIN todos : todos[i] = before[i]

\* C29: for create, toggle, delete and clear-completed, the displayed list
\* shows the optimistic edit once the handler has started the call; when a
\* call has settled, the confirmed list is unchanged and an error message is
\* set if the call failed, and holds the server's result (and, on a page
\* whose todos were loaded, agrees with the server's rows) if it succeeded;
\* and once no call is in flight the displayed list is the confirmed list,
\* with no todo flagged optimistic and no temporary negative id.
C29_ReconcileOrRollBack ==
    /\ todoSync.last.step = "start"
          => ShowsEdit(todoSync.last.action, todoSync.last.shown, displayedTodos)
    /\ (todoSync.last.step = "settle" /\ ~todoSync.last.success)
          => /\ todoSync.todos = todoSync.last.before
             /\ todoSync.error # NoError
    /\ (todoSync.last.step = "settle" /\ todoSync.last.success)
          => /\ HoldsResult(todoSync.last.action, todoSync.last.data,
                            todoSync.last.before, todoSync.todos)
             /\ todoSync.isAuthenticated
                   => todoSync.todos = getTodos(todoSync.server)
    /\ InFlight = 0
          => /\ displayedTodos = todoSync.todos
             /\ \A i \in DOMAIN displayedTodos :
                   i > 0 /\ ~displayedTodos[i].optimistic

\* a toggle was started while a create was in flight; the create failed and
\* the toggle succeeded, and the page shows the confirmed list again
C29_Witness ==
    /\ todoSync.last.step = "settle"
    /\ todoSync.last.action.type = "toggle"
    /\ todoSync.last.success
    /\ InFlight = 0
    /\ todoSync.error = "Failed to create todo"
    /\ todoSync.todos # todoSync.last.before
    /\ displayedTodos = todoSync.todos

\* C31: getNextZ returns one more than the largest z among the layouts it
\* is given, and 1 when it is given none, also for layouts loaded from
\* storage.
C31_NextZIsMaxPlusOne ==
    loadCall.called
        => \A ids \in SUBSET BLOCK_IDS :
              LET zs == {loadCall.result[b].z : b \in ids}
              IN  loadCall.nextZ[ids] =
                     (IF ids = {} THEN 1
                      ELSE (CHOOSE m \in zs : \A z \in zs : z <= m) + 1)

\* C32: when a block that has just entered focus stops being the focused
\* block, whatever handler ends the focus, its rectangle is again the one it
\* had when it entered focus.
C32_FocusReversible ==
    [][(/\ focusTrip.phase = "entered"
        /\ focusedBlockId = focusTrip.id
        /\ focusedBlockId' # focusTrip.id)
          => Rect(blockLayouts'[focusTrip.id]) = focusTrip.pre]_vars

\* C33: the rectangle computeDetailBlockPlacement returns, given back as the
\* previous details layout with the same list block and container, is
\* returned again.
C33_PlacementFixpoint ==
    placeCall.called => placeCall.again = placeCall.result

\* the first call shrank and moved the previous details layout, so the
\* second call was given another layout than the first
C33_Witness ==
    /\ placeCall.called
    /\ placeCall.detail # <<>>
    /\ placeCall.result.width < placeCall.detail.width
    /\ placeCall.result.height < placeCall.detail.height
    /\ placeCall.result.x # placeCall.detail.x
    /\ placeCall.again = placeCall.result

\* C34: raiseBlock(id) on a block whose z is already the largest z of the
\* layouts returns the layouts it was given, and raiseBlock(id) applied to
\* its own result returns that result.
C34_RaiseNoOpAndIdempotent ==
    (wsCall.op = "raiseBlock" /\ wsCall.id \in DOMAIN wsCall.before)
        => /\ (\A b \in DOMAIN wsCall.before :
                  wsCall.before[b].z <= wsCall.before[wsCall.id].z)
                 => wsCall.identical
           /\ wsCall.again = wsCall.after

\* C35: whenever no block is focused (and the effects have run), the item
\* in local storage is the record of the current layouts of both blocks, and
\* loadLayouts on it returns exactly those layouts.
C35_StorageMirrorsLayouts ==
    focusedBlockId = NoBlock
        => /\ localStorage = stringifyLayouts(blockLayouts)
           /\ loadLayouts(localStorage) = blockLayouts

\* a focus has just been left and the layouts, which are no longer the ones
\* the page was opened with, are the stored ones
C35_Witness ==
    /\ lastOp.op = "focusExit"
    /\ focusedBlockId = NoBlock
    /\ blockLayouts.todos.z >= 3
    /\ localStorage = stringifyLayouts(blockLayouts)
    /\ \A item \in RawStored : loadLayouts(item) # blockLayouts

\* C36: a step that sets selectedTodoId to a todo sets it to one todo of the
\* list that is not done, and handleSelectTodo on a done todo changes
\* neither the selection nor the layouts nor the focus target.
C36_SelectsOnlyActive ==
    [][/\ (selectedTodoId' # selectedTodoId /\ selectedTodoId' # NoTodo)
            => /\ selectedTodoId' \in TodoIds
               /\ optimisticTodos[selectedTodoId'] = "active"
               /\ optimisticTodos'[selectedTodoId'] = "active"
       /\ lastOp'.op = "selectIgnored"
            => /\ selectedTodoId' = selectedTodoId
               /\ blockLayouts' = blockLayouts
               /\ focusedBlockId' = focusedBlockId]_vars

\* a done todo was clicked while another todo was selected and the details
\* block was below the list block
C36_Witness ==
    /\ lastOp.op = "selectIgnored"
    /\ selectedTodoId # NoTodo
    /\ \E t \in TodoIds : optimisticTodos[t] = "done"
    /\ blockLayouts.todos.z > blockLayouts.todoDetails.z

\* C37: whenever the focus target is the details block, the details block
\* is visible: a todo of the list that is not done is selected.
C37_FocusedDetailsVisible ==
    focusedBlockId = "todoDetails"
        => isDetailVisible(selectedTodoId, optimisticTodos)

\* C38: after any sequence of addWorkspaceItem, updateWorkspaceItem and
\* removeWorkspaceItem every entry items[k] has projectId = k, and an update
\* leaves the projectId of the item it changes as it was.
C38_ProjectIdIsKey ==
    /\ \A k \in DOMAIN workspace.items : workspace.items[k].projectId = k
    /\ (wsCall.op = "update" /\ WsKnown)
          => wsCall.after.items[wsCall.id].projectId =
                wsCall.before.items[wsCall.id].projectId

\* an update has changed an item of a collection in which projects were
\* added out of id order
C38_Witness ==
    /\ wsCall.op = "update"
    /\ WsKnown
    /\ ~wsCall.identical
    /\ Len(workspace.orderedProjectIds) = MaxProjects
    /\ workspace.orderedProjectIds[1] # 1
    /\ workspace.items[wsCall.id].projectId = wsCall.id

\* C39: after k successful toggleTodo calls on an owned todo, in any
\* interleaving of concurrent calls, the stored done value is the initial
\* value negated k times
C39_FlipsOncePerSuccess ==
    toggleRun # <<>> =>
        LET k == Cardinality({c \in 1..MaxCalls : toggleRun.calls[c].success})
        IN  toggleRun.done = (IF k % 2 = 0 THEN toggleRun.initial
                                           ELSE ~toggleRun.initial)

====
